---- MODULE Spec2Model ----
(***************************************************************************)
(* colabconnect: the transport negotiation of colabconnect.py.             *)
(*                                                                         *)
(* Spec models the entry points start_tunnel_with_fallbacks (the           *)
(* orchestrator), test_proxychains and test_proxytunnel_connection (the    *)
(* connectivity probes) as one state machine. Every blocking call of the   *)
(* code (subprocess.run, Popen + wait, time.sleep) ends one step.          *)
(* What the environment decides (is a binary installed, does a helper      *)
(* start, how does a curl attempt end, which code does a workload exit     *)
(* with) is drawn with \E in the step that observes it.                    *)
(*                                                                         *)
(* FaultSpec adds what can go wrong around a run: a helper that dies, an   *)
(* interrupt of the caller, a process that cannot be started.              *)
(* SupervisorSpec runs start_tunnel_with_proxytunnel, start_tunnel and     *)
(* start_tunnel_direct together with the read_output threads they start.   *)
(* RelaySpec is the CONNECT relay of start_proxy_server with its clients   *)
(* and echo targets.                                                       *)
(* ConfigSpec calls the builders on their own, with the arguments drawn in *)
(* the initial state: strip_protocol, create_proxychains_config, the       *)
(* helper's bring-up (configure_proxytunnel, start_proxytunnel) and        *)
(* add_to_hosts_file. ConnectSpec is colabconnect with the environment it  *)
(* gives to the workload.                                                  *)
(***************************************************************************)
EXTENDS Integers, Sequences, FiniteSets, TLC

VARIABLES
    entry,                \* the function the caller invoked
    pc,                   \* position of the calling thread
    result,               \* what the entry point handed to its caller
    target,               \* index in targets of start_tunnel_with_fallbacks
    use_proxytunnel,      \* the local of start_tunnel_with_proxytunnel
    use_proxychains,      \* the local of start_tunnel
    pkind,                \* probe function that is running
    ppc,                  \* position inside the probe function
    test_url,             \* index of test_url in test_urls
    attempt,              \* the attempt variable of the inner loop
    outcome,              \* how the latest attempt ended
    nAttempts,            \* attempts issued by the current probe call
    okSeen,               \* some attempt of this probe call exited 0 with bytes
    gap,                  \* seconds slept since the latest attempt ended
    success,              \* return value of the probe (read when ppc = "returned")
    process,              \* proxytunnel started by test_proxytunnel_connection
    proxytunnel_process,  \* proxytunnel started by start_tunnel_with_proxytunnel
    wlVia,                \* strategy that carries the workload process p
    wlState,              \* state of the workload process p
    returncode,           \* p.returncode: <<>> while None, <<code>> once exited
    launches,             \* per strategy: number of workload processes started
    warned,               \* exit codes printed in a WARNING line
    readers,              \* the two read_output threads of the workload process p
    orphans,              \* read_output threads of earlier workloads not yet ended
    displays,             \* times the ready message was printed for p
    trail,                \* what the orchestrator did, in order
    handling,             \* client the relay's server thread is serving, 0 in accept
    session,              \* per client of the relay: its CONNECT session
    args,                 \* the arguments the entry point was called with
    environ,              \* os.environ of the calling process
    child_env,            \* the env= mapping handed to Popen for the workload
    files,                \* contents of the files the program writes
    stdout,               \* what the calling process printed, in order
    config,               \* the dict of configure_proxytunnel(_advanced)
    taken,                \* local ports that other processes hold
    cwd                   \* the working directory of the calling process

vars == <<entry, pc, result, target, use_proxytunnel, use_proxychains, pkind,
          ppc, test_url, attempt, outcome, nAttempts, okSeen, gap, success,
          process, proxytunnel_process, wlVia, wlState, returncode, launches,
          warned, readers, orphans, displays, trail, handling, session,
          args, environ, child_env, files, stdout, config, taken, cwd>>

probeVars == <<pkind, ppc, test_url, attempt, outcome, nAttempts, okSeen, gap,
               success, process>>

readerVars == <<readers, orphans, displays>>

workVars == <<proxytunnel_process, wlVia, wlState, returncode, launches, warned,
              readers, orphans, displays, child_env>>

relayVars == <<handling, session>>

hostVars == <<args, environ, files, stdout, config, taken, cwd>>

----------------------------------------------------------------------------
(* Program constants *)

\* The same list in test_proxychains and test_proxytunnel_connection
test_urls == <<"https://github.com", "https://ifconfig.me",
               "https://api.ipify.org", "https://icanhazip.com",
               "https://checkip.amazonaws.com">>

NumUrls == Len(test_urls)

\* for attempt in range(1, 4)
MaxAttempts == 3

\* The targets of start_tunnel_with_fallbacks, each with port 443
targets == <<"vscode.dev", "global.rel.tunnels.api.visualstudio.com",
             "online.visualstudio.com">>

NumTargets == Len(targets)

\* time.sleep(2) between attempts
Backoff == 2

\* The priority order of the strategies
Strategies == <<"tunnel", "chains", "direct">>

StrategySet == {Strategies[i] : i \in 1..Len(Strategies)}

Entries == {"start_tunnel_with_fallbacks", "test_proxychains",
            "test_proxytunnel_connection"}

\* How one attempt (subprocess.run of curl) can end: exit 0 with bytes on
\* stdout, exit 0 without, a non-zero exit, TimeoutExpired, another exception.
Outcomes == {"ok", "empty", "nonzero", "timeout", "exception"}

\* Exit codes a workload process is observed with
ExitCodes == {0, 1, 17}

\* The directory the notebook runs in, as its path components
StartDir == <<"content">>

\* os.chdir(path) for "..", or for a relative path of one component
chdir(dir, path) ==
    IF path = ".." THEN SubSeq(dir, 1, Len(dir) - 1) ELSE Append(dir, path)

\* The steps of check_proxychains_installed that can raise
\* CalledProcessError (subprocess.run with check=True)
BuildSteps == {"git clone", "./configure", "make", "make install"}

\* The directory the exception of a raising build step propagates from: the
\* clone runs before os.chdir("proxychains-ng"), the other steps after it
\* and before os.chdir("..")
RaisedIn(dir, step) ==
    IF step = "git clone" THEN dir ELSE chdir(dir, "proxychains-ng")

\* The directory after the build steps have run through
Built(dir) == chdir(chdir(dir, "proxychains-ng"), "..")

\* The directory check_proxychains_installed returns in: nothing is built
\* when shutil.which finds proxychains4
Returned(dir, r) == IF r = "present" THEN dir ELSE Built(dir)

\* check_proxychains_installed: found by shutil.which, built and found,
\* built but still not found (returns False), or a build step exits non-zero
\* and subprocess.run(check=True) raises CalledProcessError.
InstallOutcomes == {"present", "installed", "absent", "raises"}

\* One entry of the trail: what happened (try, build_fail, raise, error,
\* probe_ok, probe_fail, launch, exit), to which strategy, and the exit code
\* of an exit or the index of the target of a probe (0 otherwise).
Ev(e, s, c) == [ev |-> e, s |-> s, code |-> c]

\* A helper handle the code holds: the state of the proxytunnel process
\* (none, running, exited by itself, terminated) and the number of
\* terminate() calls made on the handle.
NoProcess == [st |-> "none", terms |-> 0]

\* What subprocess.Popen hands back
Started == [st |-> "running", terms |-> 0]

\* process.terminate(): SIGTERM to a running process, nothing for one that
\* has ended; the call does not wait for the process.
terminate(h) ==
    [st |-> IF h.st = "running" THEN "terminated" ELSE h.st,
     terms |-> h.terms + 1]

\* The handler around terminate() left out: an error of the call leaves
\* the function
SwallowsNothing(err) == ~err

\* "try: process.terminate() except Exception as e: print(...)": an error
\* raised by the call is printed and goes no further.
Swallows(err) == TRUE

----------------------------------------------------------------------------
(* The probes: test_proxychains and test_proxytunnel_connection *)

\* test_proxychains: "if result.returncode == 0: ... return True", stdout is
\* printed and not tested
ChainsSuccess(o) == o \in {"ok", "empty"}

\* test_proxytunnel_connection: returncode == 0 and a non-empty stripped
\* stdout ("if response:") set success
TunnelSuccess(o) == o = "ok"

\* The test that ends the probe with success
IsSuccess(kind, o) ==
    IF kind = "proxychains" THEN ChainsSuccess(o) ELSE TunnelSuccess(o)

\* test_proxychains calls time.sleep(2) in its two except branches, under
\* "if attempt < 3"; the returncode != 0 branch only prints
ChainsSleeps(o, a) == a < MaxAttempts /\ o \in {"timeout", "exception"}

\* test_proxytunnel_connection calls time.sleep(2) in the returncode != 0
\* branch and in its two except branches, under "if attempt < 3"; the empty
\* response branch only prints
TunnelSleeps(o, a) == a < MaxAttempts /\ o \in {"nonzero", "timeout", "exception"}

\* Does the code sleep after attempt a ended as o
SleepsAfter(kind, o, a) ==
    IF kind = "proxychains" THEN ChainsSleeps(o, a) ELSE TunnelSleeps(o, a)

\* The end of the loops with the clean-up of the helper left out
FinishNoCleanup(kind, u, a, ok) ==
    [ppc |-> "returned", test_url |-> u, attempt |-> a, result |-> ok]

\* The end of the loops: test_proxychains returns at once, while
\* test_proxytunnel_connection goes on to terminate its helper.
Finish(kind, u, a, ok) ==
    [ppc |-> IF kind = "proxytunnel" THEN "cleanup" ELSE "returned",
     test_url |-> u, attempt |-> a, result |-> ok]

\* The loop headers: the next attempt on this URL, then the next URL, then
\* the code after the loops with no success.
Advance(kind, u, a) ==
    IF a < MaxAttempts
    THEN [ppc |-> "run", test_url |-> u, attempt |-> a + 1, result |-> FALSE]
    ELSE IF u < NumUrls
         THEN [ppc |-> "run", test_url |-> u + 1, attempt |-> 1, result |-> FALSE]
         ELSE Finish(kind, u, a, FALSE)

\* The loops without their early exit on success
AfterAttemptNoExit(kind, u, a, o) ==
    IF SleepsAfter(kind, o, a)
    THEN [ppc |-> "sleep", test_url |-> u, attempt |-> a, result |-> FALSE]
    ELSE Advance(kind, u, a)

\* Where the probe stands once attempt a on URL u has ended as o
AfterAttempt(kind, u, a, o) ==
    IF IsSuccess(kind, o)
    THEN Finish(kind, u, a, TRUE)
    ELSE IF SleepsAfter(kind, o, a)
         THEN [ppc |-> "sleep", test_url |-> u, attempt |-> a, result |-> FALSE]
         ELSE Advance(kind, u, a)

\* test_proxychains up to its first attempt: the config file is written and
\* the loops are entered.
BeginProxychainsProbe ==
    /\ pkind' = "proxychains"
    /\ ppc' = "run"
    /\ test_url' = 1
    /\ attempt' = 1
    /\ outcome' = "none"
    /\ nAttempts' = 0
    /\ okSeen' = FALSE
    /\ gap' = 0
    /\ success' = FALSE
    /\ process' = NoProcess

\* test_proxytunnel_connection up to its first attempt: start_proxytunnel
\* either hands back a running process or None, and None returns False.
BeginProxytunnelProbe(started) ==
    /\ pkind' = "proxytunnel"
    /\ ppc' = IF started THEN "run" ELSE "returned"
    /\ test_url' = IF started THEN 1 ELSE 0
    /\ attempt' = IF started THEN 1 ELSE 0
    /\ outcome' = "none"
    /\ nAttempts' = 0
    /\ okSeen' = FALSE
    /\ gap' = 0
    /\ success' = FALSE
    /\ process' = IF started THEN Started ELSE NoProcess

\* One subprocess.run of the test command and the branch taken on its end
ProbeAttempt ==
    /\ ppc = "run"
    /\ \E o \in Outcomes :
         LET nx == AfterAttempt(pkind, test_url, attempt, o) IN
         /\ outcome' = o
         /\ nAttempts' = nAttempts + 1
         /\ okSeen' = (okSeen \/ o = "ok")
         /\ gap' = 0
         /\ ppc' = nx.ppc
         /\ test_url' = nx.test_url
         /\ attempt' = nx.attempt
         /\ success' = nx.result
    /\ UNCHANGED <<entry, pc, result, target, use_proxytunnel, use_proxychains, pkind, process,
                   trail>>
    /\ UNCHANGED workVars
    /\ UNCHANGED relayVars
    /\ UNCHANGED hostVars

\* time.sleep(2), then the loop header
ProbeBackoff ==
    /\ ppc = "sleep"
    /\ LET nx == Advance(pkind, test_url, attempt) IN
         /\ ppc' = nx.ppc
         /\ test_url' = nx.test_url
         /\ attempt' = nx.attempt
         /\ success' = nx.result
    /\ gap' = gap + Backoff
    /\ UNCHANGED <<entry, pc, result, target, use_proxytunnel, use_proxychains, pkind, outcome,
                   nAttempts, okSeen, process, trail>>
    /\ UNCHANGED workVars
    /\ UNCHANGED relayVars
    /\ UNCHANGED hostVars

\* The clean-up of test_proxytunnel_connection: process.terminate(), then
\* return success.
ProbeCleanup ==
    /\ ppc = "cleanup"
    /\ process' = terminate(process)
    /\ \E err \in BOOLEAN :
         ppc' = IF Swallows(err) THEN "returned" ELSE "raised"
    /\ UNCHANGED <<entry, pc, result, target, use_proxytunnel, use_proxychains, pkind, test_url, attempt,
                   outcome, nAttempts, okSeen, gap, success, trail>>
    /\ UNCHANGED workVars
    /\ UNCHANGED relayVars
    /\ UNCHANGED hostVars

----------------------------------------------------------------------------
(* The environment of a process *)

\* The variables the program sets
ProxyNames == {"HTTPS_PROXY", "HTTP_PROXY", "http_proxy", "https_proxy"}

CertNames ==
    {"NODE_EXTRA_CA_CERTS", "SSL_CERT_FILE", "REQUESTS_CA_BUNDLE",
     "CURL_CA_BUNDLE"}

EnvNames ==
    ProxyNames \cup CertNames
    \cup {"NODE_TLS_REJECT_UNAUTHORIZED", "GIT_SSL_NO_VERIFY",
          "npm_config_strict_ssl"}

\* The value of a variable that is not in the mapping
Unset == "<unset>"

\* The environment the calling process was started with
Inherited == [n \in EnvNames |-> Unset]

\* env[n] = v for each n of names
Set(env, names, v) == [n \in EnvNames |-> IF n \in names THEN v ELSE env[n]]

\* The three assignments start_tunnel and start_tunnel_direct make
VerifyOff3(env) ==
    Set(Set(env, {"NODE_TLS_REJECT_UNAUTHORIZED"}, "0"),
        {"CURL_CA_BUNDLE", "SSL_CERT_FILE"}, "")

\* The five assignments that switch certificate verification off
VerifyOff5(env) ==
    Set(Set(VerifyOff3(env), {"GIT_SSL_NO_VERIFY"}, "1"),
        {"npm_config_strict_ssl"}, "false")

\* f"http://localhost:{config['local_port']}"
LocalUrl(local_port) ==
    CASE local_port = 49152 -> "http://localhost:49152"
      [] local_port = 49153 -> "http://localhost:49153"
      [] OTHER -> "http://localhost:{local_port}"

\* The proxy variables name the port of the helper started before
HelperEnvStale(env, old, c) ==
    VerifyOff5(Set(env, ProxyNames, LocalUrl(old.local_port)))

\* env of start_tunnel_with_proxytunnel when the helper runs: the proxy
\* variables name the local port of c, the configuration the helper was
\* started with; old is the configuration held before the call
HelperEnv(env, old, c) ==
    VerifyOff5(Set(env, ProxyNames, LocalUrl(c.local_port)))

----------------------------------------------------------------------------
(* Files, printed lines and the helper's configuration *)

\* config_path of create_proxychains_config, the two values hosts_file_path
\* takes (the scratch file and the system file) and temp_file of
\* add_to_hosts_file
FileNames ==
    {"proxychains_vscode.conf", "./github_hosts_test", "/etc/hosts",
     "github_hosts_entries.txt"}

\* A file that does not exist
Absent == [exists |-> FALSE, lines |-> <<>>]

\* A file with these lines
File(lines) == [exists |-> TRUE, lines |-> lines]

\* A printed line: its fixed text, the host name and the argument values
\* that its f-string puts into it
Line(text, host, words) == [text |-> text, host |-> host, words |-> words]

\* command of a helper configuration that has not been built
NoCommand ==
    [p |-> <<>>, proxy_port |-> 0, d |-> "", a |-> 0, auth |-> <<>>,
     E |-> FALSE]

\* No call of configure_proxytunnel(_advanced) has returned
NoConfig == [command |-> NoCommand, local_port |-> 0]

\* print("Proxytunnel failed to start. Falling back to direct connection.")
HelperFailedLine ==
    Line("Proxytunnel failed to start. Falling back to direct connection.",
         <<>>, {})

----------------------------------------------------------------------------
(* Endpoint strings: a str is the sequence of its characters *)

Http == <<"h", "t", "t", "p", ":", "/", "/">>

Https == <<"h", "t", "t", "p", "s", ":", "/", "/">>

\* The default of proxy_url
ProxyCompanyCom ==
    <<"p", "r", "o", "x", "y", ".", "c", "o", "m", "p", "a", "n", "y", ".",
      "c", "o", "m">>

\* A proxy given by its address
DottedProxy == <<"1", "0", ".", "0", ".", "0", ".", "1">>

\* What the resolver answers for a name it knows
ResolvedIp == <<"1", "0", ".", "9", ".", "8", ".", "7">>

Hosts == {ProxyCompanyCom, DottedProxy}

\* Most prefixes in front of a host in the endpoints that are tried
MaxPrefixes == 2

RECURSIVE Prefixed(_, _)
\* The host with the prefixes of ps in front, the first of ps outermost
Prefixed(ps, host) ==
    IF ps = <<>> THEN host ELSE Head(ps) \o Prefixed(Tail(ps), host)

PrefixSeqs == UNION {[1..n -> {Http, Https}] : n \in 0..MaxPrefixes}

Endpoints == {Prefixed(ps, h) : ps \in PrefixSeqs, h \in Hosts}

\* s.startswith(prefix)
startswith(s, prefix) ==
    /\ Len(s) >= Len(prefix)
    /\ SubSeq(s, 1, Len(prefix)) = prefix

\* s[n:]
From(s, n) == SubSeq(s, n + 1, Len(s))

\* The leading prefix is cut off once: the result is returned as it is
strip_protocol(url) ==
    IF startswith(url, Http) THEN From(url, 7)
    ELSE IF startswith(url, Https) THEN From(url, 8)
    ELSE url

Digits == {"0", "1", "2", "3", "4", "5", "6", "7", "8", "9"}

\* all(c.isdigit() or c == '.' for c in s)
IsNumeric(s) == \A i \in 1..Len(s) : s[i] \in Digits \/ s[i] = "."

\* None as the value of resolve_hostname
None == <<"None">>

\* socket.gethostbyname raised socket.gaierror
gaierror == <<"gaierror">>

\* What the resolver can do with a name
Answers == {ResolvedIp, gaierror}

\* The caught socket.gaierror becomes None, an address is passed on
resolve_hostname(hostname, answer) ==
    IF answer = gaierror THEN None ELSE answer

\* The lines resolve_hostname prints: the name is stripped once more
resolve_hostname_prints(hostname, answer) ==
    LET clean == strip_protocol(hostname)
    IN  <<Line("Resolving hostname: {hostname}", clean, {})>>
        \o (IF answer = gaierror
            THEN <<Line("Failed to resolve hostname {hostname}: {str(e)}",
                        clean, {})>>
            ELSE <<Line("Resolved {hostname} to {ip_address}", clean, {})>>)

\* colabconnect before its Popen: the proxy variables name the proxy
\* itself, and the five assignments follow
ProxyEnv(env) ==
    VerifyOff5(Set(env, ProxyNames, "http://{clean_proxy_url}:{proxy_port}"))

----------------------------------------------------------------------------
(* The helper's configuration: configure_proxytunnel(_advanced) *)

\* Ports the kernel hands out for bind(('127.0.0.1', 0))
LocalPorts == {49152, 49153}

ProxyUsers == {<<"user">>}

ProxyPasswords == {<<"secret1">>, <<"secret2">>}

\* if proxy_user and proxy_pass
Authenticated(a) == a.proxy_user # None /\ a.proxy_pass # None

\* The options configure_proxytunnel_advanced appends for the credentials
auth(a) ==
    IF ~Authenticated(a) THEN <<>>
    ELSE IF a.use_ntlm THEN <<<<"-u">>, a.proxy_user, <<"-s">>, a.proxy_pass>>
    ELSE <<<<"-P">>, a.proxy_user, a.proxy_pass>>

\* command of configure_proxytunnel_advanced; configure_proxytunnel builds
\* the same command without credentials and without -E
command(a, local_port) ==
    [p |-> strip_protocol(a.proxy_url), proxy_port |-> a.proxy_port,
     d |-> a.target_host, a |-> local_port, auth |-> auth(a),
     E |-> Authenticated(a) /\ a.use_ssl]

\* The dict configure_proxytunnel(_advanced) returns
Configured(a, local_port) ==
    [command |-> command(a, local_port), local_port |-> local_port]

----------------------------------------------------------------------------
(* Workload processes *)

\* The two pipes of a workload process
Streams == {"STDOUT", "STDERR"}

\* Lines one read_output thread reads before the end of its pipe
MaxLines == 2

\* What a line of the workload holds: neither marker, "To grant access to
\* the server", "Open this link", or the word error or failed.
LineKinds == {"plain", "grant", "link", "error"}

\* A read_output thread. fn: the function that started it. phase: idle (no
\* thread), readline, print, done. line: the line read last. todo: what is
\* still to be printed (or slept) for it. printed: what has been. lines: the
\* lines read so far.
NoReader ==
    [fn |-> "none", phase |-> "idle", line |-> "none", todo |-> <<>>,
     printed |-> <<>>, lines |-> 0]

\* The notices of read_output for a line, in the order of the code. Only
\* the read_output of start_tunnel_with_proxytunnel looks for errors.
Notices(fn, kind) ==
    CASE kind = "grant" -> <<"important">>
      [] kind = "link" -> <<"starting", "sleep", "message">>
      [] kind = "error" /\ fn = "start_tunnel_with_proxytunnel" -> <<"tunnel_error">>
      [] OTHER -> <<>>

\* The notices printed before the line itself
PrintsNoticesFirst(fn, kind) == Notices(fn, kind) \o <<"log">>

\* The body of the loop of read_output: print(f"{prefix}: {line.strip()}")
\* comes first, the tests for the markers after it.
Prints(fn, kind) == <<"log">> \o Notices(fn, kind)

\* The function whose Popen runs at position pc of the calling thread
Launcher ==
    CASE pc = "swp_start" -> "start_tunnel_with_proxytunnel"
      [] pc = "cc_start" -> "colabconnect"
      [] pc = "st_start" -> "start_tunnel"
      [] OTHER -> "start_tunnel_direct"

\* read_output threads that have not reached the end of their pipe
Alive == {r \in Streams : readers[r].phase \notin {"idle", "done"}}

\* env = os.environ.copy() and the assignments to env that precede the
\* Popen of function fn for strategy via
ChildEnv(fn, via) ==
    CASE fn = "colabconnect" -> ProxyEnv(environ)
      [] fn = "start_tunnel_with_proxytunnel" /\ via = "tunnel" ->
           HelperEnv(environ, config, config')
      [] fn = "start_tunnel_with_proxytunnel" -> VerifyOff5(environ)
      [] OTHER -> VerifyOff3(environ)

\* subprocess.Popen of the ./code tunnel command through strategy via, and
\* the start of the two read_output threads on its pipes. The threads of the
\* process before are neither joined nor stopped: they run on.
Popen(via) ==
    /\ wlVia' = via
    /\ wlState' = "running"
    /\ returncode' = <<>>
    /\ launches' = [launches EXCEPT ![via] = @ + 1]
    /\ readers' = [r \in Streams |->
                      [NoReader EXCEPT !.fn = Launcher, !.phase = "readline"]]
    /\ orphans' = orphans + Cardinality(Alive)
    /\ displays' = 0
    /\ child_env' = ChildEnv(Launcher, via)

\* The workload process ends and p.wait() returns
WorkloadExit ==
    /\ wlState = "running"
    /\ \E c \in ExitCodes :
         /\ returncode' = <<c>>
         /\ trail' = Append(trail, Ev("exit", wlVia, c))
    /\ wlState' = "exited"
    /\ UNCHANGED <<entry, pc, result, target, use_proxytunnel, use_proxychains, proxytunnel_process, wlVia,
                   launches, warned>>
    /\ UNCHANGED readerVars
    /\ UNCHANGED child_env
    /\ UNCHANGED probeVars
    /\ UNCHANGED relayVars
    /\ UNCHANGED hostVars

\* The fallback left out
FallsBackNever(rc, helper) == FALSE

\* The fallback taken without the test of p.returncode
FallsBackOnAnyCode(rc, helper) == helper

\* "if p.returncode != 0: ... if use_proxytunnel: start_tunnel_direct()" and
\* the same test on use_proxychains in start_tunnel
FallsBack(rc, helper) == rc # <<0>> /\ helper

\* "print(WARNING: VSCode tunnel process exited with code ...)"
Warned(rc) == IF rc # <<0>> THEN warned \cup {rc[1]} ELSE warned

\* The exit code handed on: "return p.returncode"
ReturnsExitCode(rc) == <<"code">> \o rc

\* What start_tunnel_with_fallbacks hands to its caller: every path ends in
\* a bare return, whatever p.returncode was.
ReturnValue(rc) == <<"None">>

\* The "return" after start_tunnel_with_proxytunnel left out: the code falls
\* through to the proxychains-ng fallback
AfterCommitFallsThrough == "fb_check_chains"

\* Where start_tunnel_with_fallbacks goes once start_tunnel_with_proxytunnel
\* is back: "return".
AfterCommit == "done"

\* Where it goes once start_tunnel is back: "return".
AfterChains == "done"

\* The orchestrator leaves the called start_* function for position to
Leave(to) ==
    /\ pc' = to
    /\ result' = IF to = "done" THEN ReturnValue(returncode) ELSE result

\* readline of a read_output thread returns: a line, or '' when the process
\* has ended and the pipe is empty, which ends the thread.
ReaderRead(r) ==
    /\ readers[r].phase = "readline"
    /\ \/ /\ readers[r].lines < MaxLines
          /\ \E kind \in LineKinds :
               readers' = [readers EXCEPT ![r] =
                   [@ EXCEPT !.phase = "print", !.line = kind,
                             !.todo = Prints(readers[r].fn, kind),
                             !.printed = <<>>,
                             !.lines = @ + 1]]
       \/ /\ wlState = "exited"
          /\ readers' = [readers EXCEPT ![r] =
                            [NoReader EXCEPT !.fn = readers[r].fn, !.phase = "done"]]
    /\ UNCHANGED <<entry, pc, result, target, use_proxytunnel, use_proxychains,
                   proxytunnel_process, wlVia, wlState, returncode, launches,
                   warned, child_env, orphans, displays, trail>>
    /\ UNCHANGED probeVars
    /\ UNCHANGED relayVars
    /\ UNCHANGED hostVars

\* The next print (or the time.sleep(5)) of read_output for the line read
ReaderPrint(r) ==
    /\ readers[r].phase = "print"
    /\ LET what == Head(readers[r].todo) IN
         /\ readers' = [readers EXCEPT ![r] =
                [@ EXCEPT !.todo = Tail(@),
                          !.printed = Append(@, what),
                          !.phase = IF Len(readers[r].todo) = 1
                                    THEN "readline" ELSE "print"]]
         /\ displays' = IF what = "message" THEN displays + 1 ELSE displays
    /\ UNCHANGED <<entry, pc, result, target, use_proxytunnel, use_proxychains,
                   proxytunnel_process, wlVia, wlState, returncode, launches,
                   warned, child_env, orphans, trail>>
    /\ UNCHANGED probeVars
    /\ UNCHANGED relayVars
    /\ UNCHANGED hostVars

\* A read_output thread of an earlier workload reaches the end of its pipe
OrphanEnds ==
    /\ orphans > 0
    /\ orphans' = orphans - 1
    /\ UNCHANGED <<entry, pc, result, target, use_proxytunnel, use_proxychains,
                   proxytunnel_process, wlVia, wlState, returncode, launches,
                   warned, child_env, readers, displays, trail>>
    /\ UNCHANGED probeVars
    /\ UNCHANGED relayVars
    /\ UNCHANGED hostVars

----------------------------------------------------------------------------
(* start_tunnel_with_fallbacks *)

\* The call and "if check_proxytunnel_installed()": False when the binary
\* is neither found nor installable by apt (the function catches the apt
\* error itself).
fallbacks_check_proxytunnel_installed ==
    /\ pc = "call"
    /\ entry = "start_tunnel_with_fallbacks"
    /\ \E inst \in BOOLEAN :
         /\ pc' = IF inst THEN "fb_target" ELSE "fb_check_chains"
         /\ target' = IF inst THEN 1 ELSE 0
         /\ trail' = trail \o (IF inst THEN <<Ev("try", "tunnel", 0)>>
                               ELSE <<Ev("try", "tunnel", 0),
                                      Ev("build_fail", "tunnel", 0)>>)
    /\ UNCHANGED <<entry, result, use_proxytunnel, use_proxychains>>
    /\ UNCHANGED probeVars
    /\ UNCHANGED workVars
    /\ UNCHANGED relayVars
    /\ UNCHANGED hostVars

\* The loop body up to the first attempt of the probe: the configuration of
\* targets[target] is built and test_proxytunnel_connection starts its
\* helper.
fallbacks_test_proxytunnel_connection ==
    /\ pc = "fb_target"
    /\ \E local_port \in LocalPorts \ taken :
         config' = Configured([args EXCEPT !.target_host = targets[target]],
                              local_port)
    /\ \E started \in BOOLEAN : BeginProxytunnelProbe(started)
    /\ pc' = "fb_probe"
    /\ UNCHANGED <<entry, result, target, use_proxytunnel, use_proxychains, trail>>
    /\ UNCHANGED workVars
    /\ UNCHANGED relayVars
    /\ UNCHANGED <<args, environ, files, stdout, taken, cwd>>

\* The commit taken without looking at the probe's answer
CommitsUnprobed(ok) == TRUE

\* "if test_proxytunnel_connection(config):"
Commits(ok) == ok

\* The same target tried again
NextTargetSame(i) == i

\* "for target in targets": the index of the target tried after index i
NextTarget(i) == i + 1

\* test_proxytunnel_connection is back: commit, or go to the next target,
\* or leave the loop ("All Proxytunnel configurations failed").
fallbacks_after_test ==
    /\ pc = "fb_probe"
    /\ ppc = "returned"
    /\ trail' = Append(trail, Ev(IF success THEN "probe_ok" ELSE "probe_fail",
                                  "tunnel", target))
    /\ IF Commits(success)
       THEN /\ pc' = "swp_start"
            /\ UNCHANGED target
       ELSE IF NextTarget(target) <= NumTargets
            THEN pc' = "fb_target" /\ target' = NextTarget(target)
            ELSE pc' = "fb_check_chains" /\ UNCHANGED target
    /\ pkind' = "none"
    /\ ppc' = "idle"
    /\ test_url' = 0
    /\ attempt' = 0
    /\ outcome' = "none"
    /\ nAttempts' = 0
    /\ okSeen' = FALSE
    /\ gap' = 0
    /\ success' = FALSE
    /\ UNCHANGED <<entry, result, use_proxytunnel, use_proxychains, process>>
    /\ UNCHANGED workVars
    /\ UNCHANGED relayVars
    /\ UNCHANGED hostVars

----------------------------------------------------------------------------
(* start_tunnel_with_proxytunnel, called with the probe passed *)

\* The function up to p.wait(). codeOk: ./code exists or verify_vscode_cli
\* finds it, else the function returns None. inst: check_proxytunnel_installed
\* (asked again here). started: start_proxytunnel handed back a process; when
\* it hands back None the branch leaves command unbound, the print of the
\* command raises UnboundLocalError and the except branch returns None.
start_tunnel_with_proxytunnel ==
    /\ pc = "swp_start"
    /\ \E inst \in BOOLEAN, codeOk \in BOOLEAN, started \in BOOLEAN :
         IF ~codeOk
         THEN /\ Leave(AfterCommit)
              /\ UNCHANGED <<use_proxytunnel, trail, config, stdout>>
              /\ UNCHANGED workVars
         ELSE IF inst /\ started
         THEN /\ use_proxytunnel' = TRUE
              /\ \E local_port \in LocalPorts \ taken :
                   config' = Configured(args, local_port)
              /\ proxytunnel_process' = Started
              /\ Popen("tunnel")
              /\ trail' = Append(trail, Ev("launch", "tunnel", 0))
              /\ pc' = "swp_wait"
              /\ UNCHANGED <<result, warned, stdout>>
         ELSE IF inst
         THEN /\ use_proxytunnel' = FALSE
              /\ \E local_port \in LocalPorts \ taken :
                   config' = Configured(args, local_port)
              /\ stdout' = Append(stdout, HelperFailedLine)
              /\ trail' = Append(trail, Ev("error", "tunnel", 0))
              /\ Leave(AfterCommit)
              /\ UNCHANGED workVars
         ELSE /\ use_proxytunnel' = FALSE
              /\ Popen("direct")
              /\ trail' = trail \o <<Ev("build_fail", "tunnel", 0),
                                     Ev("try", "direct", 0),
                                     Ev("launch", "direct", 0)>>
              /\ pc' = "swp_wait"
              /\ UNCHANGED <<result, proxytunnel_process, warned, config,
                             stdout>>
    /\ UNCHANGED <<entry, target, use_proxychains>>
    /\ UNCHANGED probeVars
    /\ UNCHANGED relayVars
    /\ UNCHANGED <<args, environ, files, taken, cwd>>

\* After p.wait(): the helper is terminated, a non-zero code is printed and,
\* when the workload ran through the helper, start_tunnel_direct is called.
start_tunnel_with_proxytunnel_after_wait ==
    /\ pc = "swp_wait"
    /\ wlState = "exited"
    /\ proxytunnel_process' = IF use_proxytunnel
                              THEN terminate(proxytunnel_process)
                              ELSE proxytunnel_process
    /\ \E err \in BOOLEAN :
         IF use_proxytunnel /\ ~Swallows(err)
         THEN /\ pc' = "done"
              /\ result' = <<"TerminateError">>
              /\ UNCHANGED <<wlVia, wlState, returncode, launches, warned, trail>>
              /\ UNCHANGED readerVars
              /\ UNCHANGED child_env
         ELSE /\ warned' = Warned(returncode)
              /\ IF FallsBack(returncode, use_proxytunnel)
                 THEN /\ Popen("direct")
                      /\ trail' = trail \o <<Ev("try", "direct", 0),
                                             Ev("launch", "direct", 0)>>
                      /\ pc' = "direct_wait_swp"
                      /\ UNCHANGED result
                 ELSE /\ Leave(AfterCommit)
                      /\ UNCHANGED <<wlVia, wlState, returncode, launches, trail>>
                      /\ UNCHANGED readerVars
                      /\ UNCHANGED child_env
    /\ UNCHANGED <<entry, target, use_proxytunnel, use_proxychains>>
    /\ UNCHANGED probeVars
    /\ UNCHANGED relayVars
    /\ UNCHANGED hostVars

----------------------------------------------------------------------------
(* The proxychains-ng fallback and start_tunnel *)

\* "if check_proxychains_installed(): start_tunnel(...)", else
\* start_tunnel_direct() as the last resort. A failing build step raises
\* out of check_proxychains_installed and nothing here catches it.
fallbacks_check_proxychains_installed ==
    /\ pc = "fb_check_chains"
    /\ \E r \in InstallOutcomes :
         IF r \in {"present", "installed"}
         THEN /\ pc' = "st_start"
              /\ cwd' = Returned(cwd, r)
              /\ trail' = Append(trail, Ev("try", "chains", 0))
              /\ UNCHANGED result
              /\ UNCHANGED workVars
         ELSE IF r = "absent"
         THEN /\ Popen("direct")
              /\ cwd' = Returned(cwd, r)
              /\ trail' = trail \o <<Ev("try", "chains", 0),
                                     Ev("build_fail", "chains", 0),
                                     Ev("try", "direct", 0),
                                     Ev("launch", "direct", 0)>>
              /\ pc' = "direct_wait_fb"
              /\ UNCHANGED <<result, proxytunnel_process, warned>>
         ELSE /\ pc' = "done"
              /\ \E step \in BuildSteps : cwd' = RaisedIn(cwd, step)
              /\ result' = <<"raised">>
              /\ trail' = trail \o <<Ev("try", "chains", 0),
                                     Ev("raise", "chains", 0)>>
              /\ UNCHANGED workVars
    /\ UNCHANGED <<entry, target, use_proxytunnel, use_proxychains>>
    /\ UNCHANGED probeVars
    /\ UNCHANGED relayVars
    /\ UNCHANGED <<args, environ, files, stdout, config, taken>>

\* start_tunnel up to p.wait(): check_proxychains_installed is asked again;
\* with it the config file is written and the command is wrapped in
\* proxychains4, without it the bare command runs.
start_tunnel ==
    /\ pc = "st_start"
    /\ \E r \in InstallOutcomes :
         IF r \in {"present", "installed"}
         THEN /\ use_proxychains' = TRUE
              /\ cwd' = Returned(cwd, r)
              /\ Popen("chains")
              /\ trail' = Append(trail, Ev("launch", "chains", 0))
              /\ pc' = "st_wait"
              /\ UNCHANGED <<result, proxytunnel_process, warned>>
         ELSE IF r = "absent"
         THEN /\ use_proxychains' = FALSE
              /\ cwd' = Returned(cwd, r)
              /\ Popen("direct")
              /\ trail' = trail \o <<Ev("build_fail", "chains", 0),
                                     Ev("try", "direct", 0),
                                     Ev("launch", "direct", 0)>>
              /\ pc' = "st_wait"
              /\ UNCHANGED <<result, proxytunnel_process, warned>>
         ELSE /\ pc' = "done"
              /\ \E step \in BuildSteps : cwd' = RaisedIn(cwd, step)
              /\ result' = <<"raised">>
              /\ trail' = Append(trail, Ev("raise", "chains", 0))
              /\ UNCHANGED use_proxychains
              /\ UNCHANGED workVars
    /\ UNCHANGED <<entry, target, use_proxytunnel>>
    /\ UNCHANGED probeVars
    /\ UNCHANGED relayVars
    /\ UNCHANGED <<args, environ, files, stdout, config, taken>>

\* After p.wait() in start_tunnel
start_tunnel_after_wait ==
    /\ pc = "st_wait"
    /\ wlState = "exited"
    /\ warned' = Warned(returncode)
    /\ IF FallsBack(returncode, use_proxychains)
       THEN /\ Popen("direct")
            /\ trail' = trail \o <<Ev("try", "direct", 0),
                                   Ev("launch", "direct", 0)>>
            /\ pc' = "direct_wait_st"
            /\ UNCHANGED result
       ELSE /\ Leave(AfterChains)
            /\ UNCHANGED <<wlVia, wlState, returncode, launches, trail>>
            /\ UNCHANGED readerVars
            /\ UNCHANGED child_env
    /\ UNCHANGED <<entry, target, use_proxytunnel, use_proxychains, proxytunnel_process>>
    /\ UNCHANGED probeVars
    /\ UNCHANGED relayVars
    /\ UNCHANGED hostVars

----------------------------------------------------------------------------
(* start_tunnel_direct *)

\* start_tunnel_direct called on its own, up to p.wait()
start_tunnel_direct ==
    /\ pc = "sd_start"
    /\ Popen("direct")
    /\ trail' = trail \o <<Ev("try", "direct", 0), Ev("launch", "direct", 0)>>
    /\ pc' = "direct_wait"
    /\ UNCHANGED <<entry, result, target, use_proxytunnel, use_proxychains,
                   proxytunnel_process, warned>>
    /\ UNCHANGED probeVars
    /\ UNCHANGED relayVars
    /\ UNCHANGED hostVars

\* p.wait() of start_tunnel_direct is over: it returns None to its caller,
\* which returns in turn. The exit code is not looked at.
start_tunnel_direct_after_wait ==
    /\ pc \in {"direct_wait_swp", "direct_wait_st", "direct_wait_fb",
               "direct_wait"}
    /\ wlState = "exited"
    /\ Leave(CASE pc = "direct_wait_swp" -> AfterCommit
               [] pc = "direct_wait_st" -> AfterChains
               [] OTHER -> "done")
    /\ UNCHANGED <<entry, target, use_proxytunnel, use_proxychains, trail>>
    /\ UNCHANGED probeVars
    /\ UNCHANGED workVars
    /\ UNCHANGED relayVars
    /\ UNCHANGED hostVars

----------------------------------------------------------------------------
(* The probes called on their own *)

test_proxychains ==
    /\ pc = "call"
    /\ entry = "test_proxychains"
    /\ BeginProxychainsProbe
    /\ pc' = "probe"
    /\ UNCHANGED <<entry, result, target, use_proxytunnel, use_proxychains, trail>>
    /\ UNCHANGED workVars
    /\ UNCHANGED relayVars
    /\ UNCHANGED hostVars

test_proxytunnel_connection ==
    /\ pc = "call"
    /\ entry = "test_proxytunnel_connection"
    /\ \E started \in BOOLEAN : BeginProxytunnelProbe(started)
    /\ pc' = "probe"
    /\ UNCHANGED <<entry, result, target, use_proxytunnel, use_proxychains, trail>>
    /\ UNCHANGED workVars
    /\ UNCHANGED relayVars
    /\ UNCHANGED hostVars

\* The probe hands its boolean to the caller
ProbeReturn ==
    /\ pc = "probe"
    /\ ppc = "returned"
    /\ pc' = "done"
    /\ result' = IF success THEN <<"True">> ELSE <<"False">>
    /\ UNCHANGED <<entry, target, use_proxytunnel, use_proxychains, trail>>
    /\ UNCHANGED probeVars
    /\ UNCHANGED workVars
    /\ UNCHANGED relayVars
    /\ UNCHANGED hostVars

----------------------------------------------------------------------------
(* The relay: start_proxy_server and ProxyHTTPRequestHandler *)

\* Clients that connect to the relay
MaxClients == 2

\* Bytes one client writes in its session
MaxBytes == 2

Clients == 1..MaxClients

\* a is an initial part of b
IsPrefix(a, b) == Len(a) <= Len(b) /\ SubSeq(b, 1, Len(a)) = a

\* What is kept of one client. st: idle, queued (connected, CONNECT line
\* written, not yet accepted), open (200 sent, the loop of _forward_data
\* runs), closing (the loop is left), closed (the handler has returned; the
\* bytes of the session are kept no longer).
\* csock and tsock: the relay's socket to the client and to the target.
\* sentC, sentT: the bytes the client and the target have written, in order.
\* inC, inT: bytes that have reached the relay's sockets and are not read.
\* toT, toC: the bytes the relay has delivered to the target and the client.
\* ceof, teof: the peer has closed its end.
\* replies: what do_CONNECT did before the forwarding, in order: the end of
\* target_socket.connect and the status lines written to the client.
NewSession ==
    [st |-> "idle", csock |-> "none", tsock |-> "none", cause |-> "none",
     ceof |-> FALSE, teof |-> FALSE, replies |-> <<>>,
     sentC |-> <<>>, inC |-> <<>>, toT |-> <<>>,
     sentT |-> <<>>, inT |-> <<>>, toC |-> <<>>]

\* How do_CONNECT can go: the target accepts, target_socket.connect raises,
\* or the request path is not host:port and the unpacking raises ValueError
\* before the try.
ConnectOutcomes == {"connected", "connect_failed", "bad_path"}

\* The status line written before the connect is tried
HandshakeReplyFirst(r) ==
    CASE r = "connected" -> <<"200", "connect">>
      [] r = "connect_failed" -> <<"200", "connect_failed", "502">>
      [] OTHER -> <<>>

\* The try block of do_CONNECT: send_response(200, ...) follows the return
\* of target_socket.connect; an exception of connect goes to
\* send_error(502, ...). A path that is not host:port raises before the try.
Handshake(r) ==
    CASE r = "connected" -> <<"connect", "200">>
      [] r = "connect_failed" -> <<"connect_failed", "502">>
      [] OTHER -> <<>>

\* The ends of a session that are errors
ErrorCauses == {"connect_failed", "bad_path", "recv_error", "would_block"}

\* HTTPServer is the single-threaded server of http.server and
\* start_proxy_server gives it one thread, which runs serve_forever: a
\* request is accepted when the handler of the one before has returned.
Accepts(h) == h = 0

\* "break": the loop of _forward_data is left for the reason why
Break(s, why) == [s EXCEPT !.st = "closing", !.cause = why]

\* The close of target_socket left out
CloseClientOnly(s) ==
    [NewSession EXCEPT !.st = "closed", !.csock = "closed",
                       !.tsock = s.tsock, !.cause = s.cause,
                       !.replies = s.replies]

\* "finally:" of _forward_data: both sockets are closed
CloseBoth(s) ==
    [NewSession EXCEPT !.st = "closed", !.csock = "closed",
                       !.tsock = "closed", !.cause = s.cause,
                       !.replies = s.replies]

\* The bytes read from the client written back to the client
ClientDataToClient == "client"

\* "data = client_socket.recv(4096) ... target_socket.sendall(data)"
ClientDataTo == "target"

\* "data = target_socket.recv(4096) ... client_socket.sendall(data)"
TargetDataTo == "client"

\* s after the first k bytes of data were written to socket dest
Deliver(s, dest, data, k) ==
    IF dest = "target"
    THEN [s EXCEPT !.toT = @ \o SubSeq(data, 1, k)]
    ELSE [s EXCEPT !.toC = @ \o SubSeq(data, 1, k)]

\* A client connects to the listening socket and writes its CONNECT line
ClientConnect(c) ==
    /\ session[c].st = "idle"
    /\ session' = [session EXCEPT ![c].st = "queued"]
    /\ UNCHANGED <<entry, pc, result, target, use_proxytunnel, use_proxychains,
                   trail, handling>>
    /\ UNCHANGED probeVars
    /\ UNCHANGED workVars
    /\ UNCHANGED hostVars

\* The server thread accepts the connection of c and runs do_CONNECT up to
\* the call of _forward_data, or to its end when no session is opened:
\* send_error(502, ...) after a failed connect, and the error handling of
\* the server after a bad path. The handler's target_socket is dropped with
\* the handler's frame and the server closes the request.
do_CONNECT(c) ==
    /\ Accepts(handling)
    /\ session[c].st = "queued"
    /\ \E r \in ConnectOutcomes :
         session' = [session EXCEPT ![c] =
             CASE r = "connected" ->
                    [@ EXCEPT !.st = "open", !.csock = "open", !.tsock = "open",
                              !.replies = Handshake(r)]
               [] r = "connect_failed" ->
                    [@ EXCEPT !.st = "closed", !.csock = "closed",
                              !.tsock = "closed", !.cause = "connect_failed",
                              !.replies = Handshake(r)]
               [] OTHER ->
                    [@ EXCEPT !.st = "closed", !.csock = "closed",
                              !.cause = "bad_path", !.replies = Handshake(r)]]
    /\ handling' = IF session'[c].st = "open" THEN c ELSE handling
    /\ UNCHANGED <<entry, pc, result, target, use_proxytunnel, use_proxychains,
                   trail>>
    /\ UNCHANGED probeVars
    /\ UNCHANGED workVars
    /\ UNCHANGED hostVars

\* The client writes the next byte of its pattern
ClientSend(c) ==
    /\ session[c].st = "open"
    /\ ~session[c].ceof
    /\ Len(session[c].sentC) < MaxBytes
    /\ LET b == <<c, Len(session[c].sentC) + 1>> IN
         session' = [session EXCEPT ![c].sentC = Append(@, b),
                                    ![c].inC = Append(@, b)]
    /\ UNCHANGED <<entry, pc, result, target, use_proxytunnel, use_proxychains,
                   trail, handling>>
    /\ UNCHANGED probeVars
    /\ UNCHANGED workVars
    /\ UNCHANGED hostVars

\* The target, an echo server, writes back the next byte it was given
TargetEcho(c) ==
    /\ session[c].st = "open"
    /\ ~session[c].teof
    /\ Len(session[c].sentT) < Len(session[c].toT)
    /\ LET b == session[c].toT[Len(session[c].sentT) + 1] IN
         session' = [session EXCEPT ![c].sentT = Append(@, b),
                                    ![c].inT = Append(@, b)]
    /\ UNCHANGED <<entry, pc, result, target, use_proxytunnel, use_proxychains,
                   trail, handling>>
    /\ UNCHANGED probeVars
    /\ UNCHANGED workVars
    /\ UNCHANGED hostVars

\* The client or the target closes its end of an open session
PeerClose(c) ==
    /\ session[c].st = "open"
    /\ \/ /\ ~session[c].ceof
          /\ session' = [session EXCEPT ![c].ceof = TRUE]
       \/ /\ ~session[c].teof
          /\ session' = [session EXCEPT ![c].teof = TRUE]
    /\ UNCHANGED <<entry, pc, result, target, use_proxytunnel, use_proxychains,
                   trail, handling>>
    /\ UNCHANGED probeVars
    /\ UNCHANGED workVars
    /\ UNCHANGED hostVars

\* One pass of the loop of _forward_data with client_socket readable:
\* recv returns b'' (the client has closed), or raises, or returns the first
\* n bytes that are there; sendall on the non-blocking target_socket writes
\* them all, or writes k < n of them and raises BlockingIOError because the
\* target does not take more for now.
forward_client(c) ==
    /\ handling = c
    /\ session[c].st = "open"
    /\ LET s == session[c] IN
         \/ /\ s.inC = <<>>
            /\ s.ceof
            /\ session' = [session EXCEPT ![c] = Break(s, "client_closed")]
         \/ session' = [session EXCEPT ![c] = Break(s, "recv_error")]
         \/ \E n \in 1..Len(s.inC) : \E k \in 0..n :
              LET data == SubSeq(s.inC, 1, n)
                  t == Deliver([s EXCEPT !.inC = SubSeq(@, n + 1, Len(@))],
                               ClientDataTo, data, k)
              IN session' = [session EXCEPT ![c] =
                                IF k = n THEN t ELSE Break(t, "would_block")]
    /\ UNCHANGED handling
    /\ UNCHANGED <<entry, pc, result, target, use_proxytunnel, use_proxychains,
                   trail>>
    /\ UNCHANGED probeVars
    /\ UNCHANGED workVars
    /\ UNCHANGED hostVars

\* The same pass with target_socket readable
forward_target(c) ==
    /\ handling = c
    /\ session[c].st = "open"
    /\ LET s == session[c] IN
         \/ /\ s.inT = <<>>
            /\ s.teof
            /\ session' = [session EXCEPT ![c] = Break(s, "target_closed")]
         \/ session' = [session EXCEPT ![c] = Break(s, "recv_error")]
         \/ \E n \in 1..Len(s.inT) : \E k \in 0..n :
              LET data == SubSeq(s.inT, 1, n)
                  t == Deliver([s EXCEPT !.inT = SubSeq(@, n + 1, Len(@))],
                               TargetDataTo, data, k)
              IN session' = [session EXCEPT ![c] =
                                IF k = n THEN t ELSE Break(t, "would_block")]
    /\ UNCHANGED handling
    /\ UNCHANGED <<entry, pc, result, target, use_proxytunnel, use_proxychains,
                   trail>>
    /\ UNCHANGED probeVars
    /\ UNCHANGED workVars
    /\ UNCHANGED hostVars

\* The finally of _forward_data closes both sockets, do_CONNECT returns
\* and the server thread is in accept again.
forward_finally(c) ==
    /\ handling = c
    /\ session[c].st = "closing"
    /\ session' = [session EXCEPT ![c] = CloseBoth(@)]
    /\ handling' = 0
    /\ UNCHANGED <<entry, pc, result, target, use_proxytunnel, use_proxychains,
                   trail>>
    /\ UNCHANGED probeVars
    /\ UNCHANGED workVars
    /\ UNCHANGED hostVars

----------------------------------------------------------------------------
(* The state machine *)

\* No probe, helper or workload has been started
NoRun ==
    /\ target = 0
    /\ use_proxytunnel = FALSE
    /\ use_proxychains = FALSE
    /\ pkind = "none"
    /\ ppc = "idle"
    /\ test_url = 0
    /\ attempt = 0
    /\ outcome = "none"
    /\ nAttempts = 0
    /\ okSeen = FALSE
    /\ gap = 0
    /\ success = FALSE
    /\ process = NoProcess
    /\ proxytunnel_process = NoProcess
    /\ wlVia = "none"
    /\ wlState = "none"
    /\ returncode = <<>>
    /\ launches = [s \in StrategySet |-> 0]
    /\ warned = {}
    /\ readers = [r \in Streams |-> NoReader]
    /\ orphans = 0
    /\ displays = 0
    /\ child_env = Inherited
    /\ trail = <<>>

\* Nothing printed or written, no helper configured
NoHost ==
    /\ environ = Inherited
    /\ files = [f \in FileNames |-> Absent]
    /\ stdout = <<>>
    /\ config = NoConfig
    /\ taken = {}
    /\ cwd = StartDir

\* ca_cert_path=None
NoPath == "None"

\* The defaults of the keyword arguments. The entry points of Spec take no
\* argument that the model follows.
Defaults ==
    [proxy_url |-> ProxyCompanyCom, proxy_port |-> 8080,
     enable_proxy_dns |-> TRUE, proxy_user |-> None, proxy_pass |-> None,
     use_ntlm |-> FALSE, use_ssl |-> FALSE, use_fallbacks |-> TRUE,
     ca_cert_path |-> NoPath, disable_ssl_verification |-> FALSE,
     resolved_ips |-> <<>>, hosts_file_path |-> "./github_hosts_test",
     use_sudo |-> FALSE, system_hosts |-> FALSE,
     no_connection_test |-> FALSE, hosts_file |-> "./github_hosts_test",
     as_script |-> FALSE, target_host |-> "vscode.dev"]

\* No client has connected to the relay
NoSessions ==
    /\ handling = 0
    /\ session = [c \in Clients |-> NewSession]

Init ==
    /\ entry \in Entries
    /\ pc = "call"
    /\ result = <<"pending">>
    /\ NoRun
    /\ NoSessions
    /\ NoHost
    /\ args = Defaults

Next ==
    \/ fallbacks_check_proxytunnel_installed
    \/ fallbacks_test_proxytunnel_connection
    \/ fallbacks_after_test
    \/ start_tunnel_with_proxytunnel
    \/ start_tunnel_with_proxytunnel_after_wait
    \/ fallbacks_check_proxychains_installed
    \/ start_tunnel
    \/ start_tunnel_after_wait
    \/ start_tunnel_direct_after_wait
    \/ WorkloadExit
    \/ ProbeAttempt
    \/ ProbeBackoff
    \/ ProbeCleanup
    \/ test_proxychains
    \/ test_proxytunnel_connection
    \/ ProbeReturn

Spec == Init /\ [][Next]_vars

\* Every child the code waits for ends (or hits its timeout) and the calling
\* thread is scheduled: no enabled step is put off forever.
FairSpec == Spec /\ WF_vars(Next)

----------------------------------------------------------------------------
(* Faults: what the environment can do to a run besides ending a child *)

\* A proxytunnel helper ends by itself while the code still holds its handle
HelperExit ==
    /\ \/ /\ process.st = "running"
          /\ process' = [process EXCEPT !.st = "exited"]
          /\ UNCHANGED proxytunnel_process
       \/ /\ proxytunnel_process.st = "running"
          /\ proxytunnel_process' = [proxytunnel_process EXCEPT !.st = "exited"]
          /\ UNCHANGED process
    /\ UNCHANGED <<entry, pc, result, target, use_proxytunnel, use_proxychains,
                   pkind, ppc, test_url, attempt, outcome, nAttempts, okSeen,
                   gap, success, wlVia, wlState, returncode, launches, warned,
                   trail>>
    /\ UNCHANGED readerVars
    /\ UNCHANGED child_env
    /\ UNCHANGED relayVars
    /\ UNCHANGED hostVars

\* The caller is interrupted while the calling thread is blocked in p.wait()
\* of start_tunnel_with_proxytunnel, start_tunnel or start_tunnel_direct.
\* KeyboardInterrupt is not an Exception: "except Exception" of
\* start_tunnel_with_proxytunnel does not run, the other two functions have
\* no handler, and no function has a finally. The interrupt leaves the entry
\* point with p and the helper as they are.
KeyboardInterrupt ==
    /\ pc \in {"swp_wait", "st_wait", "direct_wait_swp", "direct_wait_st",
               "direct_wait_fb", "direct_wait"}
    /\ wlState = "running"
    /\ pc' = "done"
    /\ result' = <<"KeyboardInterrupt">>
    /\ UNCHANGED <<entry, target, use_proxytunnel, use_proxychains, trail>>
    /\ UNCHANGED probeVars
    /\ UNCHANGED workVars
    /\ UNCHANGED relayVars
    /\ UNCHANGED hostVars

\* start_tunnel_direct(), called by start_tunnel_with_proxytunnel after a
\* failed workload, cannot start its process and Popen raises OSError. The
\* helper has been terminated by the clean-up after p.wait(); the error
\* reaches "except Exception" of start_tunnel_with_proxytunnel, which
\* terminates the helper again and returns None.
start_tunnel_direct_raises ==
    /\ pc = "swp_wait"
    /\ wlState = "exited"
    /\ FallsBack(returncode, use_proxytunnel)
    /\ proxytunnel_process' = terminate(terminate(proxytunnel_process))
    /\ \E err1 \in BOOLEAN, err2 \in BOOLEAN :
         IF Swallows(err1) /\ Swallows(err2)
         THEN Leave(AfterCommit)
         ELSE pc' = "done" /\ result' = <<"TerminateError">>
    /\ warned' = Warned(returncode)
    /\ trail' = trail \o <<Ev("try", "direct", 0), Ev("error", "direct", 0)>>
    /\ UNCHANGED <<entry, target, use_proxytunnel, use_proxychains, wlVia,
                   wlState, returncode, launches>>
    /\ UNCHANGED readerVars
    /\ UNCHANGED child_env
    /\ UNCHANGED probeVars
    /\ UNCHANGED relayVars
    /\ UNCHANGED hostVars

FaultNext ==
    \/ Next
    \/ HelperExit
    \/ KeyboardInterrupt
    \/ start_tunnel_direct_raises

\* The runs of Spec and the runs in which a helper dies, the caller is
\* interrupted or a process cannot be started
FaultSpec == Init /\ [][FaultNext]_vars

----------------------------------------------------------------------------
(* The relay as a state machine *)

\* start_proxy_server has returned the server and its port; the thread of
\* the server runs serve_forever
RelayInit ==
    /\ entry = "start_proxy_server"
    /\ pc = "done"
    /\ result = <<"server", "port">>
    /\ NoRun
    /\ NoSessions
    /\ NoHost
    /\ args = Defaults

RelayNext ==
    \E c \in Clients :
        \/ ClientConnect(c)
        \/ do_CONNECT(c)
        \/ ClientSend(c)
        \/ TargetEcho(c)
        \/ PeerClose(c)
        \/ forward_client(c)
        \/ forward_target(c)
        \/ forward_finally(c)

RelaySpec == RelayInit /\ [][RelayNext]_vars

----------------------------------------------------------------------------
(* The supervised workload: the start_* functions with their readers *)

\* The functions that start a workload, each called on its own
Supervisors == {"start_tunnel_with_proxytunnel", "start_tunnel",
                "start_tunnel_direct"}

SupervisorInit ==
    /\ entry \in Supervisors
    /\ pc = CASE entry = "start_tunnel_with_proxytunnel" -> "swp_start"
               [] entry = "start_tunnel" -> "st_start"
               [] OTHER -> "sd_start"
    /\ result = <<"pending">>
    /\ NoRun
    /\ NoSessions
    /\ NoHost
    /\ args = Defaults

SupervisorNext ==
    \/ start_tunnel_with_proxytunnel
    \/ start_tunnel_with_proxytunnel_after_wait
    \/ start_tunnel
    \/ start_tunnel_after_wait
    \/ start_tunnel_direct
    \/ start_tunnel_direct_after_wait
    \/ WorkloadExit
    \/ \E r \in Streams : ReaderRead(r)
    \/ \E r \in Streams : ReaderPrint(r)
    \/ OrphanEnds

\* The calling thread and the read_output threads it starts
SupervisorSpec == SupervisorInit /\ [][SupervisorNext]_vars

----------------------------------------------------------------------------
(* create_proxychains_config *)

\* A line of the configuration file. ip and port are what the f-string
\* puts into the proxy entry.
ConfLine(text) == [text |-> text, ip |-> <<>>, port |-> 0]

ProxyEntry(proxy_ip, proxy_port_to_use) ==
    [text |-> "http {proxy_ip} {proxy_port_to_use} connect",
     ip |-> proxy_ip, port |-> proxy_port_to_use]

dns_setting(enable_proxy_dns) ==
    IF enable_proxy_dns THEN "proxy_dns_old" ELSE "# proxy_dns disabled"

config_content(proxy_ip, proxy_port_to_use, enable_proxy_dns) ==
    <<ConfLine("# proxychains.conf for VSCode tunnel"),
      ConfLine("dynamic_chain"),
      ConfLine(dns_setting(enable_proxy_dns)),
      ConfLine("tcp_read_time_out 15000"),
      ConfLine("tcp_connect_time_out 8000"),
      ConfLine(""),
      ConfLine("[ProxyList]"),
      ConfLine("# Corporate HTTP proxy"),
      ProxyEntry(proxy_ip, proxy_port_to_use)>>

\* open(path, "a") and write: the lines follow what the file held
WriteAppend(old, lines) == File(old.lines \o lines)

\* open(path, "w") and write: the file holds the lines written and no other
Write(old, lines) == File(lines)

\* proxy_ip stays the host whatever the resolver answered
proxy_ip_unresolved(clean_proxy_url, answer) == clean_proxy_url

\* proxy_ip of create_proxychains_config: a host that is not written in
\* digits and dots is resolved, and replaced if an address came back
proxy_ip(clean_proxy_url, answer) ==
    IF ~IsNumeric(clean_proxy_url)
       /\ resolve_hostname(clean_proxy_url, answer) # None
    THEN resolve_hostname(clean_proxy_url, answer)
    ELSE clean_proxy_url

\* No warning is printed for a name that did not resolve
config_prints_quiet(clean_proxy_url, answer) ==
    IF IsNumeric(clean_proxy_url) THEN <<>>
    ELSE resolve_hostname_prints(clean_proxy_url, answer)

\* What create_proxychains_config prints before it writes the file
config_prints(clean_proxy_url, answer) ==
    IF IsNumeric(clean_proxy_url) THEN <<>>
    ELSE resolve_hostname_prints(clean_proxy_url, answer)
         \o (IF resolve_hostname(clean_proxy_url, answer) # None THEN <<>>
             ELSE <<Line("WARNING: Could not resolve {clean_proxy_url} to an IP address. Proxychains requires numeric IPs.",
                         clean_proxy_url, {}),
                    Line("Using the hostname anyway, but it will likely fail.",
                         <<>>, {})>>)

CreatedLine ==
    Line("Created custom proxychains configuration at {config_path.absolute()}",
         <<>>, {})

\* Calls of create_proxychains_config that have returned
ConfigCalls == Cardinality({i \in 1..Len(stdout) : stdout[i] = CreatedLine})

\* Most calls of create_proxychains_config in a run
MaxCalls == 2

\* The arguments create_proxychains_config is called with
ChainsArgs ==
    {[Defaults EXCEPT !.proxy_url = u, !.enable_proxy_dns = d] :
        u \in Endpoints, d \in BOOLEAN}

\* create_proxychains_config(proxy_url, proxy_port, enable_proxy_dns); the
\* resolver's answer is used only for a host that is not numeric
create_proxychains_config ==
    /\ entry = "create_proxychains_config"
    /\ pc = "call"
    /\ \E answer \in Answers :
         LET clean_proxy_url == strip_protocol(args.proxy_url)
         IN  /\ IsNumeric(clean_proxy_url) => answer = ResolvedIp
             /\ files' = [files EXCEPT !["proxychains_vscode.conf"] =
                            Write(@, config_content(
                                        proxy_ip(clean_proxy_url, answer),
                                        args.proxy_port,
                                        args.enable_proxy_dns))]
             /\ stdout' = stdout \o config_prints(clean_proxy_url, answer)
                                 \o <<CreatedLine>>
             /\ result' = <<"path", "proxychains_vscode.conf">>
    /\ pc' = "done"
    /\ UNCHANGED <<entry, target, use_proxytunnel, use_proxychains, trail,
                   args, environ, config, taken, cwd>>
    /\ UNCHANGED probeVars
    /\ UNCHANGED workVars
    /\ UNCHANGED relayVars

\* The caller builds the configuration again, for another endpoint
create_proxychains_config_again ==
    /\ entry = "create_proxychains_config"
    /\ pc = "done"
    /\ ConfigCalls < MaxCalls
    /\ args' \in ChainsArgs
    /\ pc' = "call"
    /\ result' = <<"pending">>
    /\ UNCHANGED <<entry, target, use_proxytunnel, use_proxychains, trail,
                   environ, files, stdout, config, taken, cwd>>
    /\ UNCHANGED probeVars
    /\ UNCHANGED workVars
    /\ UNCHANGED relayVars

----------------------------------------------------------------------------
(* strip_protocol called on its own *)

\* The call returns the stripped string
strip_protocol_call ==
    /\ entry = "strip_protocol"
    /\ pc = "call"
    /\ result' = <<"str", strip_protocol(args.proxy_url)>>
    /\ pc' = "done"
    /\ UNCHANGED <<entry, target, use_proxytunnel, use_proxychains, trail>>
    /\ UNCHANGED probeVars
    /\ UNCHANGED workVars
    /\ UNCHANGED relayVars
    /\ UNCHANGED hostVars

----------------------------------------------------------------------------
(* The helper's bring-up: configure_proxytunnel(_advanced), start_proxytunnel *)

\* The argument values that are part of the command string
WordsOf(cmd) == {cmd.auth[i] : i \in 1..Len(cmd.auth)}

\* The line printed before the helper is configured
ConfiguringLine(a) ==
    IF Authenticated(a)
    THEN Line("Configuring Proxytunnel with authentication (user: {proxy_user}, NTLM: {use_ntlm}, SSL: {use_ssl})",
              <<>>, {a.proxy_user})
    ELSE Line("Configuring Proxytunnel without authentication", <<>>, {})

\* print(f"Starting Proxytunnel with command: {config['command']}")
StartingLine(cmd) ==
    Line("Starting Proxytunnel with command: {config['command']}", cmd.p,
         WordsOf(cmd))

\* The arguments of start_tunnel_with_proxytunnel
HelperArgs ==
    {[Defaults EXCEPT !.proxy_url = url, !.proxy_user = u, !.proxy_pass = w,
                      !.use_ntlm = n, !.use_ssl = s] :
        url \in Endpoints, u \in ProxyUsers \cup {None},
        w \in ProxyPasswords \cup {None}, n \in BOOLEAN, s \in BOOLEAN}

\* find_available_port and the command built around the port it returned:
\* the socket that held the port is closed when the function returns
configure_proxytunnel ==
    /\ entry = "start_proxytunnel"
    /\ pc = "call"
    /\ \E local_port \in LocalPorts \ taken :
         config' = Configured(args, local_port)
    /\ stdout' = Append(stdout, ConfiguringLine(args))
    /\ pc' = "configured"
    /\ UNCHANGED <<entry, result, target, use_proxytunnel, use_proxychains,
                   trail, args, environ, files, taken, cwd>>
    /\ UNCHANGED probeVars
    /\ UNCHANGED workVars
    /\ UNCHANGED relayVars

\* Another process binds the port of the hint before the helper does
PortTaken ==
    /\ entry = "start_proxytunnel"
    /\ pc = "configured"
    /\ config.local_port \notin taken
    /\ taken' = taken \cup {config.local_port}
    /\ UNCHANGED <<entry, pc, result, target, use_proxytunnel, use_proxychains,
                   trail, args, environ, files, stdout, config, cwd>>
    /\ UNCHANGED probeVars
    /\ UNCHANGED workVars
    /\ UNCHANGED relayVars

\* start_proxytunnel(config): Popen, time.sleep(2), process.poll(). A helper
\* that cannot bind its local port has exited by then; one that could may
\* have exited for another reason.
start_proxytunnel ==
    /\ entry = "start_proxytunnel"
    /\ pc = "configured"
    /\ \E started \in BOOLEAN :
         /\ config.local_port \in taken => ~started
         /\ proxytunnel_process' = IF started THEN Started ELSE NoProcess
         /\ result' = IF started THEN <<"process">> ELSE <<"None">>
         /\ stdout' = stdout \o
               <<StartingLine(config.command),
                 IF started
                 THEN Line("Proxytunnel started successfully on local port {config['local_port']}",
                           <<>>, {})
                 ELSE Line("Proxytunnel process exited with code {process.returncode}",
                           <<>>, {})>>
    /\ pc' = "done"
    /\ UNCHANGED <<entry, target, use_proxytunnel, use_proxychains, trail,
                   args, environ, files, config, taken, cwd>>
    /\ UNCHANGED <<wlVia, wlState, returncode, launches, warned, child_env>>
    /\ UNCHANGED readerVars
    /\ UNCHANGED probeVars
    /\ UNCHANGED relayVars

----------------------------------------------------------------------------
(* add_to_hosts_file *)

\* The domains of resolve_github_domains, in its order
github_domains ==
    <<"github.com", "api.github.com", "codeload.github.com",
      "raw.githubusercontent.com">>

\* What the system hosts file holds before the call
PreviousHosts == File(<<"127.0.0.1 localhost">>)

\* What an earlier run left in the scratch file
PreviousScratch == File(<<"# earlier entries">>)

\* The files before the call
InitialFile(f) ==
    CASE f = "/etc/hosts" -> PreviousHosts
      [] f = "./github_hosts_test" -> PreviousScratch
      [] OTHER -> Absent

\* hosts_entries: the comment and an "{ip} {domain}" line for each domain
hosts_entries(resolved_ips) ==
    <<"", "# GitHub domains pre-resolved for VSCode tunnel testing">>
    \o resolved_ips

\* hosts_file_path.startswith("/etc")
InEtc(path) == path = "/etc/hosts"

\* The arguments of add_to_hosts_file: the domains that resolved are the
\* first n of github_domains
HostsArgs ==
    {[Defaults EXCEPT !.resolved_ips = SubSeq(github_domains, 1, n),
                      !.hosts_file_path = path, !.use_sudo = s] :
        n \in 0..Len(github_domains),
        path \in {"./github_hosts_test", "/etc/hosts"}, s \in BOOLEAN}

\* sudo is used whatever the path is
UsesSudoAnywhere(use_sudo, path) == use_sudo

\* "if use_sudo and hosts_file_path.startswith("/etc")"
UsesSudo(use_sudo, path) == use_sudo /\ InEtc(path)

\* Printed when the branch with sudo is taken, before the temporary file
SudoLine ==
    Line("Updating hosts file at {hosts_file_path} with sudo...", <<>>, {})

\* Printed when the entries are in the file
AddedLine ==
    Line("Successfully added GitHub domains to hosts file: {hosts_file_path}",
         <<>>, {})

\* Printed when the file is written directly
WritingLine == Line("Writing to hosts file at {hosts_file_path}...", <<>>, {})

\* open(path, "w") and a write that got as far as the first n lines
WriteSome(old, lines, n) == File(SubSeq(lines, 1, n))

\* add_to_hosts_file(resolved_ips, hosts_file_path, use_sudo). Any
\* exception of the try block is caught and answered with False.
add_to_hosts_file ==
    /\ \/ entry = "add_to_hosts_file" /\ pc = "call"
       \/ entry = "test_github_dns_cli" /\ pc = "cli_hosts"
    /\ pc' = IF entry = "add_to_hosts_file" THEN "done" ELSE "cli_after_hosts"
    /\ LET entries == hosts_entries(args.resolved_ips)
           failed == Line("Failed to update hosts file: {str(e)}", <<>>, {})
           added == AddedLine
       IN  IF args.resolved_ips = <<>>
           THEN /\ result' = <<"False">>
                /\ stdout' = Append(stdout, Line("No domains to add to hosts file", <<>>, {}))
                /\ UNCHANGED files
           ELSE IF UsesSudo(args.use_sudo, args.hosts_file_path)
           THEN \/ \* the temporary file could not be opened
                   /\ result' = <<"False">>
                   /\ stdout' = stdout \o <<SudoLine, failed>>
                   /\ UNCHANGED files
                \/ \* sudo bash -c "cat ... >> ..." exited with a code other
                   \* than 0: check=True raises, temp_file is not unlinked
                   /\ result' = <<"False">>
                   /\ stdout' = stdout \o <<SudoLine, failed>>
                   /\ files' = [files EXCEPT !["github_hosts_entries.txt"] =
                                   Write(@, entries)]
                \/ \* appended, temp_file.unlink()
                   /\ result' = <<"True">>
                   /\ stdout' = stdout \o <<SudoLine, added>>
                   /\ files' = [files EXCEPT ![args.hosts_file_path] =
                                   WriteAppend(@, entries)]
           ELSE \/ \* open(hosts_file_path, "w") raised
                   /\ result' = <<"False">>
                   /\ stdout' = stdout \o <<WritingLine, failed>>
                   /\ UNCHANGED files
                \/ \* the file is open and truncated; the write, or the
                   \* flush when the file is closed, raised after n lines
                   /\ \E n \in 0..(Len(entries) - 1) :
                        files' = [files EXCEPT ![args.hosts_file_path] =
                                     WriteSome(@, entries, n)]
                   /\ result' = <<"False">>
                   /\ stdout' = stdout \o <<WritingLine, failed>>
                \/ \* written and closed
                   /\ files' = [files EXCEPT ![args.hosts_file_path] =
                                   WriteSome(@, entries, Len(entries))]
                   /\ result' = <<"True">>
                   /\ stdout' = stdout \o <<WritingLine, added>>
    /\ UNCHANGED <<entry, target, use_proxytunnel, use_proxychains, trail,
                   args, environ, config, taken, cwd>>
    /\ UNCHANGED probeVars
    /\ UNCHANGED workVars
    /\ UNCHANGED relayVars

----------------------------------------------------------------------------
(* colabconnect *)

\* A certificate file that is there, and a path where no file is
CertPath == "/content/corp-ca.pem"

MissingPath == "/content/missing.pem"

\* os.path.exists(path)
exists(path) == path = CertPath

\* The arguments of colabconnect that the model follows
ConnectArgs ==
    {[Defaults EXCEPT !.proxy_url = u, !.use_fallbacks = f,
                      !.ca_cert_path = c, !.disable_ssl_verification = d] :
        u \in {ProxyCompanyCom, Http \o ProxyCompanyCom}, f \in BOOLEAN,
        c \in {NoPath, CertPath, MissingPath}, d \in BOOLEAN}

\* The head of colabconnect, up to the first pip3 install: both blocks
\* assign to os.environ itself
colabconnect ==
    /\ entry = "colabconnect"
    /\ pc = "call"
    /\ LET env1 == IF args.ca_cert_path # NoPath /\ exists(args.ca_cert_path)
                   THEN Set(environ, CertNames, args.ca_cert_path)
                   ELSE environ
       IN  environ' = IF args.disable_ssl_verification
                      THEN VerifyOff5(env1) ELSE env1
    /\ stdout' = stdout
          \o (IF args.ca_cert_path = NoPath THEN <<>>
              ELSE IF exists(args.ca_cert_path)
              THEN <<Line("Using custom CA certificate: {ca_cert_path}", <<>>, {})>>
              ELSE <<Line("Warning: Custom CA certificate file not found: {ca_cert_path}",
                          <<>>, {})>>)
          \o (IF args.disable_ssl_verification
              THEN <<Line("Warning: SSL verification is disabled. This is not secure for production use.",
                          <<>>, {})>>
              ELSE <<>>)
    /\ pc' = "cc_install"
    /\ UNCHANGED <<entry, result, target, use_proxytunnel, use_proxychains,
                   trail, args, files, config, taken, cwd>>
    /\ UNCHANGED probeVars
    /\ UNCHANGED workVars
    /\ UNCHANGED relayVars

\* The installs, the download of the CLI and verify_vscode_cli(): without
\* ./code the function returns
colabconnect_install ==
    /\ entry = "colabconnect"
    /\ pc = "cc_install"
    /\ \E found \in BOOLEAN :
         IF found
         THEN /\ pc' = "cc_start"
              /\ UNCHANGED <<result, stdout>>
         ELSE /\ pc' = "done"
              /\ result' = <<"None">>
              /\ stdout' = Append(stdout,
                    Line("ERROR: VSCode CLI not found. Cannot start tunnel.", <<>>, {}))
    /\ UNCHANGED <<entry, target, use_proxytunnel, use_proxychains, trail,
                   args, environ, files, config, taken, cwd>>
    /\ UNCHANGED probeVars
    /\ UNCHANGED workVars
    /\ UNCHANGED relayVars

\* The try block up to p.wait(): the proxy variables and the five
\* assignments go to os.environ, env is a copy of it, and the one workload
\* is started with env
colabconnect_start ==
    /\ entry = "colabconnect"
    /\ pc = "cc_start"
    /\ environ' = ProxyEnv(environ)
    /\ Popen("direct")
    /\ trail' = trail \o <<Ev("try", "direct", 0), Ev("launch", "direct", 0)>>
    /\ stdout' = stdout \o
          <<Line("Using direct connection with SSL verification disabled...", <<>>, {}),
            Line("Executing command: {command}", <<>>, {})>>
    /\ pc' = "cc_wait"
    /\ UNCHANGED <<entry, result, target, use_proxytunnel, use_proxychains,
                   proxytunnel_process, warned, args, files, config, taken, cwd>>
    /\ UNCHANGED probeVars
    /\ UNCHANGED relayVars

\* p.wait() is over: a code other than 0 is printed in a WARNING, and the
\* function ends
colabconnect_after_wait ==
    /\ entry = "colabconnect"
    /\ pc = "cc_wait"
    /\ wlState = "exited"
    /\ warned' = Warned(returncode)
    /\ pc' = "done"
    /\ result' = <<"None">>
    /\ UNCHANGED <<entry, target, use_proxytunnel, use_proxychains, trail,
                   proxytunnel_process, wlVia, wlState, returncode, launches,
                   child_env>>
    /\ UNCHANGED readerVars
    /\ UNCHANGED probeVars
    /\ UNCHANGED relayVars
    /\ UNCHANGED hostVars

ConnectInit ==
    /\ entry = "colabconnect"
    /\ args \in ConnectArgs
    /\ pc = "call"
    /\ result = <<"pending">>
    /\ NoRun
    /\ NoSessions
    /\ NoHost

ConnectNext ==
    \/ colabconnect
    \/ colabconnect_install
    \/ colabconnect_start
    \/ WorkloadExit
    \/ colabconnect_after_wait

ConnectSpec == ConnectInit /\ [][ConnectNext]_vars

----------------------------------------------------------------------------
(* The builders as a state machine *)

\* ------------------------------------------------------------------
\* test_github_dns_cli and the __main__ block
\* ------------------------------------------------------------------

\* --system-hosts, --no-connection-test, --hosts-file, and whether the
\* function is reached from the __main__ block of the file run as a script
\* or is called after the module was imported
CliArgs ==
    {[Defaults EXCEPT !.system_hosts = s, !.no_connection_test = t,
                      !.hosts_file = f, !.as_script = m] :
        s \in BOOLEAN, t \in BOOLEAN,
        f \in {"./github_hosts_test", "/etc/hosts"}, m \in BOOLEAN}

\* Every function of the module is bound whenever the call is made
BoundAlways(name, as_script) == TRUE

\* The global names bound when test_github_dns_cli runs: the __main__ block
\* calls it before the def statements of resolve_github_domains and
\* add_to_hosts_file, which follow the block, have been executed
Bound(name, as_script) ==
    \/ ~as_script
    \/ name \notin {"resolve_github_domains", "add_to_hosts_file"}

\* sys.exit(test_github_dns_cli()) in the __main__ block, the returned value
\* for a caller that imported the module
Exit(code, as_script) ==
    IF as_script THEN <<"exit", code>> ELSE <<"return", code>>

SettingsLine ==
    Line("Testing GitHub DNS resolution with the following settings:", <<>>, {})

ResolvingLine == Line("Resolving key GitHub domains...", <<>>, {})

ResolvedLine ==
    Line("Successfully resolved {len(resolved_ips)}/{len(github_domains)} GitHub domains",
         <<>>, {})

NoneResolvedLine == Line("Failed to resolve any GitHub domains", <<>>, {})

HostsFailedLine == Line("Failed to add GitHub domains to hosts file", <<>>, {})

TestingLine == Line("Testing connection to GitHub...", <<>>, {})

TestOkLine == Line("DNS resolution test successful!", <<>>, {})

TestFailedLine == Line("DNS resolution test failed!", <<>>, {})

CompletedLine == Line("DNS resolution test completed successfully!", <<>>, {})

\* resolve_github_domains: the domains resolve_hostname answered for, in
\* the order of github_domains
resolve_github_domains(answered) ==
    SelectSeq(github_domains, LAMBDA d : d \in answered)

\* The arguments are parsed, the settings printed and the domains resolved;
\* with none resolved the function returns 1, otherwise add_to_hosts_file is
\* called with the resolved entries, the chosen path and use_sudo. An
\* unbound global name raises NameError, which nothing catches: the
\* interpreter prints the traceback and exits with status 1.
test_github_dns_cli ==
    /\ entry = "test_github_dns_cli"
    /\ pc = "call"
    /\ LET hosts_file_path ==
               IF args.system_hosts THEN "/etc/hosts" ELSE args.hosts_file
           use_sudo == args.system_hosts
       IN  IF ~Bound("resolve_github_domains", args.as_script)
           THEN /\ stdout' = Append(stdout, SettingsLine)
                /\ result' = <<"exit", 1>>
                /\ pc' = "done"
                /\ UNCHANGED args
           ELSE \E answered \in SUBSET {github_domains[i] :
                                        i \in 1..Len(github_domains)} :
                  LET resolved_ips == resolve_github_domains(answered)
                  IN  IF resolved_ips = <<>>
                      THEN /\ stdout' = stdout \o
                                <<SettingsLine, ResolvingLine,
                                  NoneResolvedLine, NoneResolvedLine>>
                           /\ result' = Exit(1, args.as_script)
                           /\ pc' = "done"
                           /\ UNCHANGED args
                      ELSE /\ stdout' = stdout \o
                                <<SettingsLine, ResolvingLine, ResolvedLine>>
                           /\ args' = [args EXCEPT
                                          !.resolved_ips = resolved_ips,
                                          !.hosts_file_path = hosts_file_path,
                                          !.use_sudo = use_sudo]
                           /\ pc' = "cli_hosts"
                           /\ UNCHANGED result
    /\ UNCHANGED <<entry, target, use_proxytunnel, use_proxychains, trail,
                   environ, files, config, taken, cwd>>
    /\ UNCHANGED probeVars
    /\ UNCHANGED workVars
    /\ UNCHANGED relayVars

\* After add_to_hosts_file: 1 when it returned False; otherwise the curl
\* request unless --no-connection-test, 0 when curl exits with 0 and the
\* status starts with '2', 1 when it does not or subprocess.run raised
test_github_dns_cli_after_hosts ==
    /\ entry = "test_github_dns_cli"
    /\ pc = "cli_after_hosts"
    /\ pc' = "done"
    /\ IF result = <<"False">>
       THEN /\ stdout' = Append(stdout, HostsFailedLine)
            /\ result' = Exit(1, args.as_script)
       ELSE IF ~args.no_connection_test
       THEN \E curl \in {"2xx", "other", "raised"} :
              /\ stdout' = stdout \o
                    <<TestingLine,
                      IF curl = "2xx" THEN TestOkLine ELSE TestFailedLine>>
              /\ result' = Exit(IF curl = "2xx" THEN 0 ELSE 1, args.as_script)
       ELSE /\ stdout' = Append(stdout, CompletedLine)
            /\ result' = Exit(0, args.as_script)
    /\ UNCHANGED <<entry, target, use_proxytunnel, use_proxychains, trail,
                   args, environ, files, config, taken, cwd>>
    /\ UNCHANGED probeVars
    /\ UNCHANGED workVars
    /\ UNCHANGED relayVars

ConfigEntries ==
    {"strip_protocol", "create_proxychains_config", "start_proxytunnel",
     "add_to_hosts_file", "test_github_dns_cli"}

ArgsOf(e) ==
    CASE e = "strip_protocol" ->
           {[Defaults EXCEPT !.proxy_url = u] : u \in Endpoints}
      [] e = "create_proxychains_config" -> ChainsArgs
      [] e = "start_proxytunnel" -> HelperArgs
      [] e = "add_to_hosts_file" -> HostsArgs
      [] e = "test_github_dns_cli" -> CliArgs

ConfigInit ==
    /\ entry \in ConfigEntries
    /\ args \in ArgsOf(entry)
    /\ pc = "call"
    /\ result = <<"pending">>
    /\ NoRun
    /\ NoSessions
    /\ environ = Inherited
    /\ files = [f \in FileNames |-> InitialFile(f)]
    /\ stdout = <<>>
    /\ config = NoConfig
    /\ taken = {}
    /\ cwd = StartDir

ConfigNext ==
    \/ strip_protocol_call
    \/ create_proxychains_config
    \/ create_proxychains_config_again
    \/ configure_proxytunnel
    \/ PortTaken
    \/ start_proxytunnel
    \/ add_to_hosts_file
    \/ test_github_dns_cli
    \/ test_github_dns_cli_after_hosts

ConfigSpec == ConfigInit /\ [][ConfigNext]_vars

----------------------------------------------------------------------------
(* What the trail records *)

Orchestrating == entry = "start_tunnel_with_fallbacks"

Idx == 1..Len(trail)

\* The strategy after s in the priority order
Succ(s) == IF s = "tunnel" THEN "chains" ELSE "direct"

IsLaunch(i) == trail[i].ev = "launch"

IsFailedExit(i) == trail[i].ev = "exit" /\ trail[i].code # 0

ProbedOkBefore(i) ==
    \E j \in 1..(i - 1) : trail[j].ev = "probe_ok" /\ trail[j].s = trail[i].s

TotalLaunches == launches["tunnel"] + launches["chains"] + launches["direct"]

----------------------------------------------------------------------------
(* C1 *)

----------------------------------------------------------------------------
(* C2 *)

----------------------------------------------------------------------------
(* C3 *)

\* C3: in one run of start_tunnel_with_fallbacks every strategy has its
\* workload launched at most once.
C3_AtMostOneLaunch ==
    \A s \in StrategySet : launches[s] <= 1

\* A run in which a workload failed and the fallback has run to its end
C3_Witness ==
    /\ Orchestrating
    /\ pc = "done"
    /\ launches["tunnel"] = 1
    /\ launches["direct"] = 1
    /\ returncode # <<0>>

----------------------------------------------------------------------------
(* C4 *)

----------------------------------------------------------------------------
(* C5 *)

\* Strategy trail[i].s is given up at i: it cannot be built, or its probe
\* has failed on the last target
IsRejected(i) ==
    \/ trail[i].ev \in {"build_fail", "raise"}
    \/ trail[i].ev = "probe_fail" /\ trail[i].code = NumTargets

\* C5 as stated: when a strategy cannot be built or its probe fails, no
\* error escapes start_tunnel_with_fallbacks, the strategy is neither probed
\* nor run afterwards, and the next strategy of the priority order is tried.
C5_RecoversLocally ==
    /\ result # <<"raised">>
    /\ \A i \in Idx :
         IsRejected(i) =>
            /\ \A j \in (i + 1)..Len(trail) :
                 trail[j].s = trail[i].s
                    => trail[j].ev \notin {"launch", "probe_ok", "probe_fail"}
            /\ i < Len(trail) => trail[i + 1] = Ev("try", Succ(trail[i].s), 0)
            /\ pc = "done" => i < Len(trail)

----------------------------------------------------------------------------
(* C6 *)

WorkloadSucceeded == Orchestrating /\ wlState = "exited" /\ returncode = <<0>>

\* C6: once the workload of the committed strategy has exited with code 0,
\* the only step left is the return: nothing more is built, probed or
\* launched.
C6_DoneAfterExitZero ==
    [][WorkloadSucceeded =>
          /\ pc' = "done"
          /\ trail' = trail
          /\ launches' = launches
          /\ UNCHANGED probeVars
          /\ UNCHANGED <<wlVia, wlState, returncode, target>>]_vars

\* The run has ended after the tunnel binary's workload exited with 0
C6_Witness ==
    /\ Orchestrating
    /\ pc = "done"
    /\ wlVia = "tunnel"
    /\ returncode = <<0>>
    /\ result = <<"None">>

----------------------------------------------------------------------------
(* C7 *)

ProbeCalls == Cardinality({i \in Idx : trail[i].ev \in {"probe_ok", "probe_fail"}})

\* C7: every run of start_tunnel_with_fallbacks ends (returns or raises),
\* with at most one probe call per target, at most len(test_urls) * 3
\* attempts per probe call and at most two workload launches.
C7_Terminates ==
    /\ <>(pc = "done")
    /\ [](Orchestrating =>
            /\ ProbeCalls <= NumTargets
            /\ nAttempts <= NumUrls * MaxAttempts
            /\ TotalLaunches <= 2)

\* The longest run: three failed probes, the chained proxy's workload
\* fails, the direct workload ends
C7_Witness ==
    /\ Orchestrating
    /\ pc = "done"
    /\ ProbeCalls = NumTargets
    /\ TotalLaunches = 2

----------------------------------------------------------------------------
(* C8 *)

\* C8: one probe call issues at most len(test_urls) * 3 attempts, and none
\* after an attempt that exited 0 with a non-empty response.
C8_AttemptsBounded ==
    /\ [](nAttempts <= NumUrls * MaxAttempts)
    /\ [][okSeen => nAttempts' # nAttempts + 1]_vars

\* A probe has returned on a success on its second URL, after failures
C8_Witness ==
    /\ ppc = "returned"
    /\ okSeen
    /\ test_url = 2
    /\ nAttempts > MaxAttempts
    /\ success

----------------------------------------------------------------------------
(* C9 *)

\* C9 as stated: a probe reports success if and only if some attempt exited
\* 0 with a non-empty response.
C9_SuccessIffNonEmpty ==
    ppc = "returned" => (success <=> okSeen)

----------------------------------------------------------------------------
(* C10 *)

\* C10 as stated: a retry on the same URL is issued only after the 2 second
\* backoff, whatever way the attempt before it failed, and no backoff
\* follows the third attempt.
C10_BackoffBetweenAttempts ==
    /\ (ppc = "run" /\ attempt > 1) => gap = Backoff
    /\ ppc = "sleep" => attempt < MaxAttempts

----------------------------------------------------------------------------
(* C11 *)

\* C11: whenever test_proxytunnel_connection has returned, with success or
\* failure and whatever errors its attempts raised, the helper it started is
\* not running any more: a helper of a probe runs only while the probe is
\* between its start and its clean-up.
C11_HelperEndsWithProbe ==
    /\ ppc = "returned" => process.st # "running"
    /\ process.st = "running"
          => pkind = "proxytunnel" /\ ppc \in {"run", "sleep", "cleanup"}
    /\ ppc # "raised"

\* The probe has returned failure after its last attempt raised, and its
\* helper was terminated while running
C11_Witness ==
    /\ pkind = "proxytunnel"
    /\ ppc = "returned"
    /\ ~success
    /\ outcome = "exception"
    /\ nAttempts = NumUrls * MaxAttempts
    /\ process = [st |-> "terminated", terms |-> 1]

----------------------------------------------------------------------------
(* C12 *)

\* C12 as stated: every connection is handled on its own worker: a client
\* that has connected is accepted and served whether or not the session of
\* another client is still open, so its do_CONNECT can always be run.
C12_AcceptedWhileOtherOpen ==
    \A c \in Clients : session[c].st = "queued" => ENABLED do_CONNECT(c)

----------------------------------------------------------------------------
(* C13 *)

\* The bytes client c writes, in order
Pattern(c) == [k \in 1..MaxBytes |-> <<c, k>>]

----------------------------------------------------------------------------
(* C14 *)

\* C14: an I/O error on a socket of a session, a failed connect to the
\* target included, ends that session only: once the handler has returned
\* both sockets of the session are closed, the sessions of the other
\* clients are as they were, and the server thread is back in accept or
\* serving another client.
C14_ErrorEndsOneSession ==
    /\ [](\A c \in Clients :
            (session[c].st = "closed" /\ session[c].cause \in ErrorCauses)
                => /\ session[c].csock = "closed"
                   /\ session[c].tsock # "open"
                   /\ handling # c)
    /\ [](handling # 0 => session[handling].st \in {"open", "closing"})
    /\ [][\A c, d \in Clients :
            (c # d /\ session'[c] # session[c]
                   /\ session'[c].cause \in ErrorCauses)
                => session'[d] = session[d]]_vars

\* The session of client 1 ended on an error and client 2, accepted after
\* it, has had a byte echoed
C14_Witness ==
    /\ session[1].st = "closed"
    /\ session[1].cause = "recv_error"
    /\ session[2].st = "open"
    /\ Len(session[2].toC) > 0

----------------------------------------------------------------------------
(* C15 *)

\* C15 as stated: a peer that does not take a write at once does not end
\* the session: no session is left because a write could not complete.
C15_StalledPeerKeepsSession ==
    \A c \in Clients : session[c].cause # "would_block"

----------------------------------------------------------------------------
(* C16 *)

\* C16 as stated: over the life of one workload process the ready message
\* is printed at most once, however many lines of its stdout and stderr
\* hold "Open this link".
C16_MessageAtMostOnce ==
    displays <= 1

----------------------------------------------------------------------------
(* C17 *)

\* What read_output prints for the line reader r read last, done and to do
Output(r) == readers[r].printed \o readers[r].todo

\* C17: every line a read_output thread reads is printed to the log exactly
\* once, and that print comes before every notice and before the sleep its
\* markers set off; the thread reads its next line only when the line
\* before has been logged.
C17_LoggedOnceAndFirst ==
    \A r \in Streams :
        /\ readers[r].line # "none"
              => /\ Output(r)[1] = "log"
                 /\ Cardinality({i \in 1..Len(Output(r)) : Output(r)[i] = "log"}) = 1
        /\ readers[r].phase = "readline" => readers[r].todo = <<>>
        /\ (readers[r].phase = "readline" /\ readers[r].lines > 0)
              => readers[r].printed[1] = "log"

\* The second line of stderr held "Open this link": it was logged, then
\* announced, and the message followed the sleep
C17_Witness ==
    /\ readers["STDERR"].lines = 2
    /\ readers["STDERR"].line = "link"
    /\ readers["STDERR"].printed = <<"log", "starting", "sleep", "message">>

----------------------------------------------------------------------------
(* C18 *)

\* C18: terminating a helper is safe to repeat: a terminate() on a handle
\* that was terminated before (the clean-up after p.wait() followed by the
\* clean-up of the except branch) or whose process has already ended raises
\* nothing to the caller, leaves the state of the process as it was, and the
\* function goes on to its return without waiting for the process.
C18_TerminateIdempotent ==
    /\ [](/\ result # <<"TerminateError">>
          /\ ppc # "raised"
          /\ proxytunnel_process.terms <= 2
          /\ proxytunnel_process.terms = 2
                => /\ pc = "done"
                   /\ result = <<"None">>
                   /\ proxytunnel_process.st \in {"terminated", "exited"}
          /\ (process.terms >= 1 /\ pkind = "proxytunnel") => ppc = "returned")
    /\ [][/\ (proxytunnel_process.terms >= 1
                 => proxytunnel_process'.st = proxytunnel_process.st)
           /\ (process.st = "exited" => process'.st \in {"exited", "running", "none"})]_vars

\* The helper ended by itself during the workload, was terminated after
\* p.wait() and once more by the except branch; the function returned None
C18_Witness ==
    /\ proxytunnel_process = [st |-> "exited", terms |-> 2]
    /\ pc = "done"
    /\ result = <<"None">>

----------------------------------------------------------------------------
(* C19 *)

\* C19 as stated: when the process of the next strategy is started, no
\* read_output thread of the process before it is still running.
C19_ReadersReleased ==
    orphans = 0

----------------------------------------------------------------------------
(* C20 *)

\* C20 as stated: when the orchestration is interrupted while a workload is
\* running, the workload process and the helper it runs through have been
\* terminated once the interrupt has left the entry point.
C20_InterruptTerminatesChildren ==
    result = <<"KeyboardInterrupt">>
        => /\ wlState # "running"
           /\ proxytunnel_process.st # "running"

----------------------------------------------------------------------------
(* C21 *)

\* The string starts with a protocol prefix
HasPrefix(s) == startswith(s, Http) \/ startswith(s, Https)

\* The address in the proxy entry of the configuration file
WrittenAddress ==
    LET doc == files["proxychains_vscode.conf"].lines IN doc[Len(doc)].ip

\* C21 as stated: for every endpoint that starts with http:// or https://,
\* repeated prefixes included, the host the builders go on with after
\* strip_protocol does not start with a protocol prefix.
C21_NormalizedHasNoPrefix ==
    (pc = "done" /\ HasPrefix(args.proxy_url))
        => CASE entry = "strip_protocol" -> ~HasPrefix(result[2])
             [] entry = "create_proxychains_config" -> ~HasPrefix(WrittenAddress)
             [] entry = "start_proxytunnel" -> ~HasPrefix(config.command.p)
             [] OTHER -> TRUE

----------------------------------------------------------------------------
(* C22 *)

\* The line printed i lines before the end of stdout
Printed(i) ==
    IF i < Len(stdout) THEN stdout[Len(stdout) - i] ELSE Line("", <<>>, {})

WarningLine(clean_proxy_url) ==
    Line("WARNING: Could not resolve {clean_proxy_url} to an IP address. Proxychains requires numeric IPs.",
         clean_proxy_url, {})

----------------------------------------------------------------------------
(* C23 *)

\* The lines of the configuration file
Doc == files["proxychains_vscode.conf"].lines

\* C23: whenever create_proxychains_config has returned, after one call or
\* after several, the file at config_path is the document of the last call
\* and nothing else: its one proxy entry names the last call's host (as
\* given or as resolved) and port, and the proxy_dns_old directive is in it
\* exactly if the last call enabled it.
C23_FileIsLastDocument ==
    (entry = "create_proxychains_config" /\ pc = "done")
        => /\ files["proxychains_vscode.conf"].exists
           /\ Doc = config_content(WrittenAddress, args.proxy_port,
                                   args.enable_proxy_dns)
           /\ WrittenAddress \in {strip_protocol(args.proxy_url), ResolvedIp}
           /\ Cardinality({i \in 1..Len(Doc) : Doc[i].text = ProxyEntry(<<>>, 0).text}) = 1
           /\ (\E i \in 1..Len(Doc) : Doc[i].text = "proxy_dns_old")
                 <=> args.enable_proxy_dns

\* The second call, for 10.0.0.1 without the directive, has returned; the
\* first was for a name
C23_Witness ==
    /\ entry = "create_proxychains_config"
    /\ pc = "done"
    /\ ConfigCalls = 2
    /\ stdout[1].host = ProxyCompanyCom
    /\ args.proxy_url = DottedProxy
    /\ ~args.enable_proxy_dns
    /\ WrittenAddress = DottedProxy

----------------------------------------------------------------------------
(* C24 *)

\* Calls of find_available_port in the helper's bring-up
Hints ==
    Cardinality({i \in 1..Len(stdout) :
                    stdout[i].text \in {ConfiguringLine(Defaults).text,
                                        ConfiguringLine([Defaults EXCEPT
                                            !.proxy_user = <<"user">>,
                                            !.proxy_pass = <<"secret1">>]).text}})

\* C24 as stated: when the helper could not start because another process
\* took the port of the hint before the helper's bind, the failure is
\* returned to the caller only after the configuration has been built again
\* with a fresh port hint.
C24_RetriedWithFreshHint ==
    (/\ entry = "start_proxytunnel"
     /\ pc = "done"
     /\ result = <<"None">>
     /\ config.local_port \in taken)
        => Hints > 1

----------------------------------------------------------------------------
(* C25 *)

\* C25 as stated: with user and password given, no printed line holds the
\* password, so that the output is the same whatever the password is.
C25_PasswordNotPrinted ==
    Authenticated(args)
        => \A i \in 1..Len(stdout) : args.proxy_pass \notin stdout[i].words

----------------------------------------------------------------------------
(* C26 *)

\* C26 as stated: the overrides are made in the child's environment only;
\* os.environ of the calling process is, at every point of a run and after
\* it, what the process inherited.
C26_ParentEnvironUnchanged ==
    environ = Inherited

----------------------------------------------------------------------------
(* C27 *)

\* C27 as stated: a call of add_to_hosts_file that did not succeed returns
\* False and leaves the hosts file as it was before the call, whether the
\* file is written directly or appended to with sudo.
C27_AllOrNothing ==
    (entry = "add_to_hosts_file" /\ pc = "done")
        => \/ result = <<"True">>
           \/ /\ result = <<"False">>
              /\ files[args.hosts_file_path] = InitialFile(args.hosts_file_path)

----------------------------------------------------------------------------
(* C28 *)

\* Workload processes started in this run
Launched == {s \in StrategySet : launches[s] > 0}

\* C28 as stated: with use_fallbacks=True, colabconnect does not end after
\* a first workload that exited with a code other than 0: another mechanism
\* has been tried by the time it returns.
C28_FallbackAfterFailedWorkload ==
    (/\ entry = "colabconnect"
     /\ pc = "done"
     /\ args.use_fallbacks
     /\ returncode \notin {<<>>, <<0>>})
        => \/ Cardinality(Launched) > 1
           \/ \E s \in StrategySet : launches[s] > 1

----------------------------------------------------------------------------
(* C29 *)

\* C29 as stated: with ca_cert_path naming a file that exists, the workload
\* of colabconnect is started with the four certificate-bundle variables
\* equal to that path.
C29_WorkloadUsesCaCert ==
    (/\ entry = "colabconnect"
     /\ wlState # "none"
     /\ args.ca_cert_path # NoPath
     /\ exists(args.ca_cert_path))
        => \A n \in CertNames : child_env[n] = args.ca_cert_path

----------------------------------------------------------------------------
(* C30 *)

\* C30 as stated: with disable_ssl_verification=False the workload of
\* colabconnect is started with none of the five settings that switch
\* certificate verification off.
C30_VerificationStaysOn ==
    (/\ entry = "colabconnect"
     /\ wlState # "none"
     /\ ~args.disable_ssl_verification)
        => /\ child_env["NODE_TLS_REJECT_UNAUTHORIZED"] # "0"
           /\ child_env["CURL_CA_BUNDLE"] # ""
           /\ child_env["SSL_CERT_FILE"] # ""
           /\ child_env["GIT_SSL_NO_VERIFY"] # "1"
           /\ child_env["npm_config_strict_ssl"] # "false"

----------------------------------------------------------------------------
(* C31 *)

\* x comes before y in sequence h
Before(h, x, y) ==
    \E i, j \in 1..Len(h) : i < j /\ h[i] = x /\ h[j] = y

\* x is in sequence h
Has(h, x) == \E i \in 1..Len(h) : h[i] = x

\* C31: in every CONNECT session the 200 line is written only after
\* target_socket.connect has returned, and bytes are forwarded (the session
\* is open, a byte is delivered to either side) only after the 200 line;
\* when the connect failed the client gets 502 and no 200, and no byte of
\* that session is ever delivered.
C31_ReplyAfterConnect ==
    /\ [](\A c \in Clients :
            LET s == session[c] IN
            /\ Has(s.replies, "200")
                  => /\ Before(s.replies, "connect", "200")
                     /\ ~Has(s.replies, "connect_failed")
                     /\ ~Has(s.replies, "502")
            /\ (s.st \in {"open", "closing"} \/ s.toT # <<>> \/ s.toC # <<>>)
                  => /\ s.replies # <<>>
                     /\ s.replies[Len(s.replies)] = "200"
            /\ s.cause = "connect_failed"
                  => /\ Has(s.replies, "502")
                     /\ ~Has(s.replies, "200")
                     /\ s.toT = <<>> /\ s.toC = <<>>
                     /\ s.st = "closed")
    /\ [][\A c \in Clients :
            (Len(session'[c].toT) > Len(session[c].toT)
               \/ Len(session'[c].toC) > Len(session[c].toC))
                => /\ Has(session[c].replies, "200")
                   /\ session[c].cause # "connect_failed"]_vars

\* The connect for client 1 failed and was answered with 502; client 2,
\* accepted after it, got its 200 and has had a byte delivered to the target
C31_Witness ==
    /\ session[1].cause = "connect_failed"
    /\ session[1].replies = <<"connect_failed", "502">>
    /\ session[2].replies = <<"connect", "200">>
    /\ Len(session[2].toT) > 0

----------------------------------------------------------------------------
(* C32 *)

\* A helper that was started and has not been sent terminate()
Pending(h) == h.st # "none" /\ h.terms = 0

\* C32: in a run of start_tunnel_with_fallbacks the helper of a probe and
\* the helper of the workload are never both started and not yet sent
\* terminate(), and no helper is in that state when the probe of a target
\* starts its helper, when start_tunnel_with_proxytunnel starts the
\* workload's helper, or once a workload has been started without a helper
\* (the clean-up after p.wait() and the call of start_tunnel_direct are one
\* step).
C32_OneHelperAtATime ==
    /\ [](entry = "start_tunnel_with_fallbacks"
            => ~(Pending(process) /\ Pending(proxytunnel_process)))
    /\ [][entry = "start_tunnel_with_fallbacks"
            => /\ (pc = "fb_target" /\ pc' = "fb_probe")
                     => ~Pending(process) /\ ~Pending(proxytunnel_process)
               /\ (pc = "swp_start" /\ proxytunnel_process' = Started)
                     => ~Pending(process) /\ ~Pending(proxytunnel_process)
               /\ (\E s \in {"direct", "chains"} : launches'[s] > launches[s])
                     => ~Pending(process') /\ ~Pending(proxytunnel_process')]_vars

\* The probe of the second target passed and its helper was terminated; the
\* workload runs through a helper of its own
C32_Witness ==
    /\ entry = "start_tunnel_with_fallbacks"
    /\ target = 2
    /\ process = [st |-> "terminated", terms |-> 1]
    /\ proxytunnel_process = Started
    /\ wlState = "running"

\* The call is made with the default settings: the scratch path and no sudo
DefaultSettings ==
    /\ ~args.system_hosts
    /\ args.hosts_file = "./github_hosts_test"
    /\ args.hosts_file_path = "./github_hosts_test"
    /\ ~args.use_sudo

Resolved == Has(stdout, ResolvingLine) /\ ~Has(stdout, NoneResolvedLine)

HostsWritten ==
    /\ \/ Has(stdout, SudoLine)
       \/ Has(stdout, WritingLine)
    /\ ~Has(stdout, HostsFailedLine)

ConnectionTested == Has(stdout, TestingLine)

\* C34: run as a script with the command test_github_dns_cli, the module
\* resolves the domains, then writes the hosts file, then tests the
\* connection unless told not to, and its exit status is 0 exactly when
\* every step it performed succeeded, 1 otherwise.
C34_ScriptExitStatus ==
    (entry = "test_github_dns_cli" /\ args.as_script /\ pc = "done") =>
        /\ Has(stdout, ResolvingLine)
        /\ HostsWritten => Before(stdout, ResolvingLine, ResolvedLine)
        /\ ConnectionTested => HostsWritten /\ ~args.no_connection_test
        /\ result = <<"exit", 0>> <=>
              /\ Resolved
              /\ HostsWritten
              /\ ~Has(stdout, TestFailedLine)
        /\ result \in {<<"exit", 0>>, <<"exit", 1>>}

\* C35: the helper that carries the workload of start_tunnel_with_fallbacks
\* was started with the command of the configuration whose probe succeeded:
\* the same proxy, the same target host and the same options, on the local
\* port of its own configuration.
C35_CommittedTargetIsProbed ==
    (entry = "start_tunnel_with_fallbacks" /\ wlVia = "tunnel") =>
        config.command =
            command([args EXCEPT !.target_host = targets[target]],
                    config.local_port)

\* C36: once start_tunnel_with_proxytunnel has reported that the helper
\* failed to start and that it falls back to a direct connection, the
\* workload has been launched directly, with no proxy variable naming a
\* local helper port.
C36_DirectAfterHelperFailure ==
    Has(stdout, HelperFailedLine) =>
        /\ launches["direct"] > 0
        /\ wlVia = "direct"
        /\ \A n \in ProxyNames : child_env[n] = Inherited[n]

\* C37: while the workload runs through the helper, the four proxy
\* variables of its environment name the local port of the configuration
\* the helper was started with, and start_proxytunnel handed back the
\* helper's process, alive when it was polled; the code has not terminated
\* it (it may have ended by itself since).
C37_ProxyVariablesNameHelperPort ==
    (wlVia = "tunnel" /\ wlState = "running") =>
        /\ config.local_port \in LocalPorts
        /\ config.command.a = config.local_port
        /\ \A n \in ProxyNames : child_env[n] = LocalUrl(config.local_port)
        /\ proxytunnel_process.st \in {"running", "exited"}
        /\ proxytunnel_process.terms = 0

\* The probe of the second target used one port, the workload's helper was
\* configured with the other, and the workload names the latter
C37_Witness ==
    /\ entry = "start_tunnel_with_fallbacks"
    /\ target = 2
    /\ wlVia = "tunnel"
    /\ wlState = "running"
    /\ config.local_port = 49153
    /\ child_env["HTTPS_PROXY"] = "http://localhost:49153"
    /\ child_env["http_proxy"] = "http://localhost:49153"

\* C38: check_proxychains_installed leaves the working directory of the
\* process as it was, on every exit path, a failing build step included:
\* the relative paths used afterwards name the same files as before.
C38_WorkingDirectoryUnchanged == cwd = StartDir

====
